---------------------------- MODULE Spec2Model ----------------------------
(***************************************************************************)
(* Model of the koubou task-dispatch system: the SQLite store              *)
(* (common/database.py), the local worker loop (workers/local_worker.py)   *)
(* and the enhanced pool manager's monitor loop                            *)
(* (workers/enhanced_pool_manager.py).                                     *)
(*                                                                         *)
(* Time is counted in units of the heartbeat timeout (60 s): every worker  *)
(* row carries the age of its last_heartbeat, Tick lets one unit pass.     *)
(* Every connection is opened with isolation_level=None (autocommit), so   *)
(* each SQL statement outside an explicit BEGIN IMMEDIATE commits by       *)
(* itself; the model's actions follow those transaction boundaries.        *)
(***************************************************************************)
EXTENDS Integers, Sequences, FiniteSets, TLC

\* ---------------------------------------------------------------- bounds
NumTasks == 2
NumWorkers == 2
MaxNotifications == 2
MaxTerminal == 2
MaxEvents == 1
\* pool configuration: the ceiling on concurrently active tasks
MaxActiveTasks == 1
\* tasks in the store when the order of selection is examined
MaxListed == 3
\* worker processes that poll for notifications at the same time
NumProcs == 2
\* characters of a file path after its leading separator
MaxPathLen == 3
MaxRequests == 2
MaxCreates == 2
MaxRouted == 2
\* publish calls, subscribe calls and delivery rounds on the MessageBus
MaxPublished == 3
MaxSubscriptions == 2
MaxChecks == 3
\* characters of the body of one section of an executor's output
MaxBodyLen == 2
\* words of a prompt
MaxPromptLen == 2
ScaleArgs == {0 - 1, 1, 2}

\* ------------------------------------------------------ program constants
\* heartbeat timeout (60 s), the unit of time of the model
TDead == 1
\* LIMIT of monitor_loop's query for pending tasks
PendingLimit == 10
\* priority of a task delegated without one
DefaultPriority == 5
\* WorkerPoolManager's default min_workers and max_workers
MinWorkers == 1
MaxWorkers == 5

MaxAge == TDead + 1

Tasks == 1..NumTasks
Workers == 1..NumWorkers
Procs == 1..NumProcs
Priorities == {DefaultPriority, 9}
NULL == 0
\* no call of cleanup_dead_workers has just returned
NoReturn == 0 - 1
\* the worker has made no direct acquire_next_task call
NoCall == 0 - 2
\* no task fetched, nothing processed
NoContent == [prompt_empty |-> FALSE, files |-> <<>>, output_file |-> <<>>]
\* PoolManagerAPI.control_token when POOL_CONTROL_TOKEN is not set
ControlToken == "default_token"
\* a request without the field auth_token
NoToken == "None"
NoRequest == [token |-> NoToken, command |-> "none"]
NoResponse == "none"
\* the WORKER_AUTH_TOKEN a worker expects: KOUBOU_HOME + '_POOL_MANAGER'
ExpectedAuth == "KOUBOU_HOME_POOL_MANAGER"
\* os.environ.get('WORKER_AUTH_TOKEN'): the expected string, another one,
\* or None when the variable is not set
AuthTokens == {ExpectedAuth, "other", NoToken}
NotLaunched == "not launched"
NoExit == 0 - 1
\* a task dict without the key preferred_worker
NoHintTask == [priority |-> DefaultPriority, preferred_worker |-> NULL]
\* route_task raised instead of returning
RouterError == 0 - 3
\* POST /task/delegate has answered nothing yet
NoDelegateResponse == [http |-> 0, status |-> "none", task |-> NULL,
                       sync |-> FALSE, prompt_empty |-> FALSE,
                       result |-> "none"]
\* what execute_task_sync returns: the executor's exit code was 0, it was
\* not, or subprocess.run raised TimeoutExpired after 120 s
ExecOutcomes == {"success", "failed", "timeout"}
\* no result text has been put together
NoParts == [prefix |-> <<>>, a |-> [body |-> <<>>, wrap |-> "none"],
            b |-> [body |-> <<>>, wrap |-> "none"]]
NoResult == [returned |-> FALSE, executor |-> FALSE, success |-> FALSE,
             status |-> "in_progress"]

VARIABLES
    task_master,           \* table task_master: task_id -> row
    workers,               \* table workers: worker_id -> row
    worker_notifications,  \* table worker_notifications, in insertion order
    pc,                    \* position of each worker process in run()
    wtask,                 \* the task a worker process holds locally
    mgrPc,                 \* position of the pool manager in monitor_loop()
    mgrQueue,              \* pending_tasks rows still to be handled this tick
    mgrSel,                \* [task, worker] just assigned, to be notified
    tickOrphans,           \* history: tasks orphaned when this iteration began
    cleanupPc,             \* position of a caller inside cleanup_dead_workers
    cleanupReset,          \* worker ids matched by the first statement
    cleanupTasks,          \* tasks reset by the first statement
    cleanupRet,            \* what cleanup_dead_workers has just returned
    terminal,              \* history: terminal transitions made per worker
    events,                \* history: kills, shutdowns and operator requests so far
    acquired,              \* history: result of a direct acquire_next_task call
    poolPc,                \* position of WorkerPoolManager.run
    poolPending,           \* pending_tasks read by this scale_workers call
    poolActive,            \* active_tasks read by this scale_workers call
    poolSpawn,             \* spawn_worker calls this scale_workers call still makes
    poolWorkers,           \* WorkerPoolManager.workers: ids of its processes
    claimed,               \* history: tasks each worker's direct calls returned, in order
    listed,                \* history: limit and result of the last get_pending_tasks call
    claimAs,               \* the worker_id each worker process runs under
    claimPc,               \* position of a process inside check_for_task_notifications
    claimSel,              \* notification row its SELECT returned
    consumed,              \* history: per notification, the processes it was returned to
    valTask,               \* content of the task a worker has fetched
    valResult,             \* history: what process_task and update_task_result made of it
    min_workers,           \* WorkerPoolManager.min_workers
    max_workers,           \* WorkerPoolManager.max_workers
    poolIdle,              \* scale_workers: idle workers still to be shut down
    apiReq,                \* PoolManagerAPI: the last control request received
    apiResp,               \* PoolManagerAPI: the response sent to it
    apiCount,              \* control requests received so far
    launchAuth,            \* history: the WORKER_AUTH_TOKEN each worker process was last started with
    exitStatus,            \* history: exit status of a worker process that left at its start
    createRet,             \* history: per task_id, what the create_task calls returned, in order
    routeTask,             \* TaskRouter.route_task: the task dict it is called with
    routeWorkers,          \* TaskRouter.route_task: available_workers
    routeRules,            \* TaskRouter.rules
    routeResult,           \* history: what route_task returned
    routeSwitched,         \* history: the worker switched from idle to busy afterwards
    routeAgain,            \* history: what the next route_task call returned
    dlgPc,                 \* MasterAPI: position of a sync delegate_task handler
    dlgTask,               \* MasterAPI: the task that handler executes inline
    dlgResp,               \* history: the last response of POST /task/delegate
    queue_type,            \* MessageBus: the implementation get_queue_instance returned
    busLog,                \* history: the channel of every publish call, in call order
    busFiles,              \* LocalQueue: the notification files on disk, by publish number
    busSubs,               \* the subscribe calls made, in call order
    redisInbox,            \* RedisQueue: messages the pubsub connection has received, unread
    busDelivered,          \* history: the callback invocations, in order
    busChecks,             \* history: delivery rounds made so far
    exPrompt,              \* DeliverableExtractor: task_content, the words of the prompt
    exParts,               \* the prefix and the two sections result_text is made of
    exType,                \* history: what _infer_task_type returned
    exFiles                \* history: the files _save_formatted_result wrote, name to content

vars == <<task_master, workers, worker_notifications, pc, wtask, mgrPc,
          mgrQueue, mgrSel, tickOrphans, cleanupPc, cleanupReset, cleanupTasks,
          cleanupRet, terminal, events, acquired, poolPc, poolPending,
          poolActive, poolSpawn, poolWorkers, claimed, listed, claimAs,
          claimPc, claimSel, consumed,
          valTask, valResult,
          min_workers, max_workers, poolIdle,
          apiReq, apiResp, apiCount,
          launchAuth, exitStatus,
          createRet,
          routeTask, routeWorkers, routeRules, routeResult, routeSwitched, routeAgain,
          dlgPc, dlgTask, dlgResp,
          queue_type, busLog, busFiles, busSubs, redisInbox, busDelivered, busChecks,
          exPrompt, exParts, exType, exFiles>>

storeVars == <<task_master, workers, worker_notifications>>
workerVars == <<pc, wtask>>
mgrVars == <<mgrPc, mgrQueue, mgrSel, tickOrphans>>
cleanupVars == <<cleanupPc, cleanupReset, cleanupTasks>>
poolVars == <<poolPc, poolPending, poolActive, poolSpawn, poolWorkers>>
orderVars == <<claimed, listed>>
claimVars == <<claimAs, claimPc, claimSel, consumed>>
valVars == <<valTask, valResult>>
scaleVars == <<min_workers, max_workers, poolIdle>>
apiVars == <<apiReq, apiResp, apiCount>>
launchVars == <<launchAuth, exitStatus>>
createVars == <<createRet>>
routerVars == <<routeTask, routeWorkers, routeRules, routeResult, routeSwitched, routeAgain>>
delegateVars == <<dlgPc, dlgTask, dlgResp>>
busVars == <<queue_type, busLog, busFiles, busSubs, redisInbox, busDelivered, busChecks>>
extractVars == <<exPrompt, exParts, exType, exFiles>>

\* ------------------------------------------------------------- the store

\* INSERT INTO task_master (task_id, content, priority, created_by):
\* status defaults to 'pending', assigned_to to NULL
NewTask(p) == [status |-> "pending", priority |-> p, assigned_to |-> NULL]

\* INSERT INTO workers (worker_id, status) VALUES (?, 'idle')
NewWorker == [status |-> "idle", current_task |-> NULL, tasks_completed |-> 0,
              tasks_failed |-> 0, age |-> 0]

\* a faulty variant of the order below: the priority is not looked at
before_by_creation_only(tm, a, b) == a < b

\* ORDER BY priority DESC, created_at ASC; task ids are creation timestamps,
\* so a smaller id is an earlier created_at. Rows with the same priority
\* and the same second of created_at come out in rowid order, the order of
\* their insertion, which the index of a task stands for as well
Before(tm, a, b) ==
    \/ tm[a].priority > tm[b].priority
    \/ tm[a].priority = tm[b].priority /\ a < b

SortedSeq(tm, S) ==
    CHOOSE s \in [1..Cardinality(S) -> S] :
        /\ \A i, j \in 1..Cardinality(S) : i < j => Before(tm, s[i], s[j])

PendingSet(tm) == {t \in DOMAIN tm : tm[t].status = "pending"}

\* SELECT * FROM task_master WHERE status = 'pending'
\* ORDER BY priority DESC, created_at ASC LIMIT ?
get_pending_tasks(tm, limit) ==
    LET s == SortedSeq(tm, PendingSet(tm))
    IN  IF Len(s) <= limit THEN s ELSE SubSeq(s, 1, limit)

\* UPDATE workers SET status = ?, current_task = ?, last_heartbeat = now
\* WHERE worker_id = ?
update_worker_status(ws, w, st, ct) ==
    IF w \in DOMAIN ws
    THEN [ws EXCEPT ![w].status = st, ![w].current_task = ct, ![w].age = 0]
    ELSE ws

\* UPDATE task_master SET status = ? WHERE task_id = ?
update_task_status(tm, t, st) ==
    IF t \in DOMAIN tm THEN [tm EXCEPT ![t].status = st] ELSE tm

\* the row acquire_next_task selects: top of the pending queue, or NULL
acquire_select(tm) ==
    LET s == get_pending_tasks(tm, 1) IN IF s = <<>> THEN NULL ELSE s[1]

\* a faulty variant of the update below: assigned_to is written, the status
\* is left as it was
acquire_update_keeps_status(tm, t, w) ==
    IF t \in DOMAIN tm /\ tm[t].status = "pending"
    THEN [tm EXCEPT ![t].assigned_to = w]
    ELSE tm

\* UPDATE task_master SET status = 'in_progress', assigned_to = ?
\* WHERE task_id = ? AND status = 'pending'
acquire_update(tm, t, w) ==
    IF t \in DOMAIN tm /\ tm[t].status = "pending"
    THEN [tm EXCEPT ![t].status = "in_progress", ![t].assigned_to = w]
    ELSE tm

\* return value of acquire_next_task: the selected task when the update
\* matched a row, None otherwise
acquire_result(tm, w) ==
    LET t == acquire_select(tm)
    IN  IF t # NULL /\ acquire_update(tm, t, w) # tm THEN t ELSE NULL

\* one BEGIN IMMEDIATE transaction of acquire_next_task
acquire_next_task(w) ==
    LET t == acquire_result(task_master, w)
    IN  /\ task_master' = (IF t = NULL THEN task_master
                           ELSE acquire_update(task_master, t, w))
        /\ workers' = (IF t = NULL THEN workers
                       ELSE update_worker_status(workers, w, "busy", t))

\* does the task UPDATE of complete_task_with_stats match a row
\* (WHERE task_id = ? AND assigned_to = ?)
complete_matches(tm, t, w) ==
    t \in DOMAIN tm /\ tm[t].assigned_to = w

\* UPDATE workers SET tasks_completed/tasks_failed + 1, status = 'idle',
\* current_task = NULL, last_heartbeat = now WHERE worker_id = ?
complete_stats(ws, w, success) ==
    IF w \in DOMAIN ws
    THEN [ws EXCEPT ![w].tasks_completed = @ + (IF success THEN 1 ELSE 0),
                    ![w].tasks_failed = @ + (IF success THEN 0 ELSE 1),
                    ![w].status = "idle",
                    ![w].current_task = NULL,
                    ![w].age = 0]
    ELSE ws

\* one BEGIN IMMEDIATE transaction of complete_task_with_stats
complete_task_with_stats(t, w, success) ==
    IF complete_matches(task_master, t, w)
    THEN /\ task_master' = [task_master EXCEPT ![t].status =
                               IF success THEN "completed" ELSE "failed"]
         /\ workers' = complete_stats(workers, w, success)
    ELSE UNCHANGED <<task_master, workers>>

\* last_heartbeat <= datetime('now', '-T seconds')
IsDead(ws, w) == ws[w].age >= TDead

DeadWorkers(ws) == {w \in DOMAIN ws : IsDead(ws, w)}

\* a faulty variant of the UPDATE below: the status goes back to pending,
\* assigned_to is left as it was
cleanup_reset_keeps_owner(tm, ws) ==
    [t \in DOMAIN tm |->
        IF tm[t].status = "in_progress" /\ tm[t].assigned_to \in DeadWorkers(ws)
        THEN [tm[t] EXCEPT !.status = "pending"]
        ELSE tm[t]]

\* first statement of cleanup_dead_workers
cleanup_reset_tasks(tm, ws) ==
    [t \in DOMAIN tm |->
        IF tm[t].status = "in_progress" /\ tm[t].assigned_to \in DeadWorkers(ws)
        THEN [tm[t] EXCEPT !.status = "pending", !.assigned_to = NULL]
        ELSE tm[t]]

\* a faulty variant of the DELETE below: only one of the dead rows goes
cleanup_delete_one_worker(ws) ==
    IF DeadWorkers(ws) = {} THEN ws
    ELSE LET d == CHOOSE w \in DeadWorkers(ws) : \A v \in DeadWorkers(ws) : w <= v
         IN  [w \in (DOMAIN ws) \ {d} |-> ws[w]]

\* second statement of cleanup_dead_workers
cleanup_delete_workers(ws) ==
    [w \in (DOMAIN ws) \ DeadWorkers(ws) |-> ws[w]]

\* --------------------------------------------------------------- routing

\* configured location of a worker (workers.yaml: local_workers, remote_workers)
Location(w) == IF w = 1 THEN "local" ELSE "remote"

\* performance_factor * 100 (defaults: 1.0 for a local, 0.5 for a remote worker)
PerformanceFactor100(w) == IF Location(w) = "local" THEN 100 ELSE 50

\* _calculate_worker_score, as the pair <<numerator, denominator>> of the
\* exact score: 100 * performance_factor + (50 idle / -30 busy)
\* + 30 * tasks_completed / (tasks_completed + tasks_failed)
calculate_worker_score(ws, w) ==
    LET total == ws[w].tasks_completed + ws[w].tasks_failed
        base == PerformanceFactor100(w)
                + (IF ws[w].status = "idle" THEN 50
                   ELSE IF ws[w].status = "busy" THEN 0 - 30 ELSE 0)
    IN  IF total > 0 THEN <<base * total + 30 * ws[w].tasks_completed, total>>
        ELSE <<base, 1>>

ScoreGreater(a, b) == a[1] * b[2] > b[1] * a[2]

\* _select_best_worker: stable sort by score, descending; the first entry
select_best_worker(ws, cands) ==
    IF cands = <<>> THEN NULL
    ELSE LET best == CHOOSE i \in 1..Len(cands) :
                 /\ \A j \in 1..Len(cands) :
                        ~ScoreGreater(calculate_worker_score(ws, cands[j]),
                                      calculate_worker_score(ws, cands[i]))
                 /\ \A j \in 1..(i - 1) :
                        ScoreGreater(calculate_worker_score(ws, cands[i]),
                                     calculate_worker_score(ws, cands[j]))
         IN  cands[best]

\* route_task with an empty rule list (no routing_policy configured) and no
\* preferred_worker key (monitor_loop builds the task dict without one)
route_task(ws, available) ==
    IF available = <<>> THEN NULL
    ELSE LET IsLocal(w) == Location(w) = "local"
             IsRemote(w) == Location(w) # "local"
             IsIdleLocal(w) == IsLocal(w) /\ ws[w].status = "idle"
             remote_workers == SelectSeq(available, IsRemote)
             local_idle == SelectSeq(available, IsIdleLocal)
         IN  IF local_idle = <<>> /\ remote_workers # <<>>
             THEN select_best_worker(ws, remote_workers)
             ELSE available[1]

\* SELECT ... FROM workers WHERE status = 'idle'
\*   AND datetime('now', '-60 seconds') <= last_heartbeat
AvailableSet(ws) == {w \in DOMAIN ws : ws[w].status = "idle" /\ ws[w].age <= TDead}

\* the orders in which the SELECT (no ORDER BY) may return the rows
Orderings(S) ==
    {s \in [1..Cardinality(S) -> S] : \A i, j \in 1..Cardinality(S) : i # j => s[i] # s[j]}

\* --------------------------------------------------- TaskRouter, in full

\* the worker dicts of available_workers; performance_factor is kept
\* times 100
WorkerDicts ==
    [worker_id : Workers, status : {"idle", "busy"}, location : {"local", "remote"},
     performance_factor100 : {50, 100}, tasks_completed : 0..1, tasks_failed : 0..1]

\* lists of up to MaxRouted worker dicts with different worker ids
WorkerLists ==
    {l \in UNION {[1..n -> WorkerDicts] : n \in 0..MaxRouted} :
        \A i, j \in DOMAIN l : i # j => l[i].worker_id # l[j].worker_id}

\* the task dicts: priority and the optional preferred_worker
TaskDicts == [priority : Priorities, preferred_worker : Workers \cup {NULL}]

\* routing_policy['rules']: no rule, or one rule for the high priorities
RoutingRules ==
    {<<>>} \cup
    {<<r>> : r \in [priority_range : {<<8, 10>>},
                    preferred_workers : {<<>>, <<"local">>, <<"remote">>,
                                         <<"remote", "local">>},
                    fallback_to_local : BOOLEAN]}

\* _match_worker_type
router_match_worker_type(worker, worker_type) ==
    IF worker_type = "local" THEN worker.location = "local"
    ELSE IF worker_type = "remote" THEN worker.location # "local"
    ELSE TRUE

\* a faulty variant of the score below: a busy worker scores higher than
\* an idle one
router_score_busy_first(worker) ==
    LET total == worker.tasks_completed + worker.tasks_failed
        base == worker.performance_factor100
                + (IF worker.status = "busy" THEN 50
                   ELSE IF worker.status = "idle" THEN 0 - 30 ELSE 0)
    IN  IF total > 0 THEN <<base * total + 30 * worker.tasks_completed, total>>
        ELSE <<base, 1>>

\* _calculate_worker_score, as the pair <<numerator, denominator>> of the
\* exact score: 100 * performance_factor + (50 idle / -30 busy)
\* + 30 * tasks_completed / (tasks_completed + tasks_failed)
router_calculate_worker_score(worker) ==
    LET total == worker.tasks_completed + worker.tasks_failed
        base == worker.performance_factor100
                + (IF worker.status = "idle" THEN 50
                   ELSE IF worker.status = "busy" THEN 0 - 30 ELSE 0)
    IN  IF total > 0 THEN <<base * total + 30 * worker.tasks_completed, total>>
        ELSE <<base, 1>>

\* _select_best_worker: stable sort by score, descending; the worker_id of
\* the first entry
router_select_best_worker(candidates) ==
    IF candidates = <<>> THEN NULL
    ELSE LET best == CHOOSE i \in 1..Len(candidates) :
                 /\ \A j \in 1..Len(candidates) :
                        ~ScoreGreater(router_calculate_worker_score(candidates[j]),
                                      router_calculate_worker_score(candidates[i]))
                 /\ \A j \in 1..(i - 1) :
                        ScoreGreater(router_calculate_worker_score(candidates[i]),
                                     router_calculate_worker_score(candidates[j]))
         IN  candidates[best].worker_id

RECURSIVE router_try_types(_, _, _)
\* route_task, the loop over rule['preferred_workers'] from entry j on: the
\* best candidate of the first worker type that has candidates, or NULL
\* when the loop ends without one
router_try_types(available_workers, preferred_types, j) ==
    IF j > Len(preferred_types) THEN NULL
    ELSE LET candidates == SelectSeq(available_workers,
                 LAMBDA w : router_match_worker_type(w, preferred_types[j]))
         IN  IF candidates # <<>> THEN router_select_best_worker(candidates)
             ELSE router_try_types(available_workers, preferred_types, j + 1)

RECURSIVE router_apply_rules(_, _, _, _)
\* route_task, the loop over self.rules from rule i on, and the default
\* after it. The fallback test reads candidates, which no statement has
\* assigned when the first matching rule lists no worker type: NameError
router_apply_rules(task, available_workers, rules, i) ==
    IF i > Len(rules) THEN available_workers[1].worker_id
    ELSE LET rule == rules[i]
             matches == /\ rule.priority_range[1] <= task.priority
                        /\ task.priority <= rule.priority_range[2]
             selected == router_try_types(available_workers, rule.preferred_workers, 1)
             local_workers == SelectSeq(available_workers,
                                        LAMBDA w : w.location = "local")
         IN  IF ~matches THEN router_apply_rules(task, available_workers, rules, i + 1)
             ELSE IF selected # NULL THEN selected
             ELSE IF rule.fallback_to_local /\ rule.preferred_workers = <<>> /\ i = 1
                  THEN RouterError
             ELSE IF rule.fallback_to_local /\ local_workers # <<>>
                  THEN router_select_best_worker(local_workers)
             ELSE router_apply_rules(task, available_workers, rules, i + 1)

\* TaskRouter.route_task(task, available_workers)
router_route_task(task, available_workers, rules) ==
    IF available_workers = <<>> THEN NULL
    ELSE IF /\ task.preferred_worker # NULL
            /\ \E i \in DOMAIN available_workers :
                   available_workers[i].worker_id = task.preferred_worker
         THEN task.preferred_worker
    ELSE LET local_workers == SelectSeq(available_workers,
                                        LAMBDA w : w.location = "local")
             remote_workers == SelectSeq(available_workers,
                                         LAMBDA w : w.location # "local")
             local_idle == SelectSeq(local_workers, LAMBDA w : w.status = "idle")
         IN  IF local_idle = <<>> /\ remote_workers # <<>>
             THEN router_select_best_worker(remote_workers)
             ELSE router_apply_rules(task, available_workers, rules, 1)

\* a route_task call
Route ==
    /\ routeResult = NoCall
    /\ routeResult' = router_route_task(routeTask, routeWorkers, routeRules)
    /\ UNCHANGED <<storeVars, workerVars, mgrVars, cleanupVars, cleanupRet, terminal,
                   events, acquired, poolVars, orderVars, claimVars, valVars,
                   scaleVars, apiVars, launchVars, createVars, routeTask,
                   routeWorkers, routeRules, routeSwitched, routeAgain,
                   delegateVars, busVars, extractVars>>

\* a second route_task call with the same arguments
RouteAgain ==
    /\ routeResult # NoCall
    /\ routeAgain = NoCall
    /\ dlgPc = "idle"
    /\ dlgTask = NULL
    /\ dlgResp = NoDelegateResponse
    /\ queue_type = "local"
    /\ busLog = <<>>
    /\ busFiles = {}
    /\ busSubs = <<>>
    /\ redisInbox = <<>>
    /\ busDelivered = <<>>
    /\ busChecks = 0
    /\ exPrompt = <<"page">>
    /\ exParts = NoParts
    /\ exType = "none"
    /\ exFiles = <<>>
    /\ routeAgain' = router_route_task(routeTask, routeWorkers, routeRules)
    /\ UNCHANGED <<storeVars, workerVars, mgrVars, cleanupVars, cleanupRet, terminal,
                   events, acquired, poolVars, orderVars, claimVars, valVars,
                   scaleVars, apiVars, launchVars, createVars, routeTask,
                   routeWorkers, routeRules, routeSwitched, routeResult,
                   delegateVars, busVars, extractVars>>

\* a second route_task call after entry i of the list has gone from idle
\* to busy
RouteSwitched(i) ==
    /\ routeResult # NoCall
    /\ routeAgain = NoCall
    /\ dlgPc = "idle"
    /\ dlgTask = NULL
    /\ dlgResp = NoDelegateResponse
    /\ queue_type = "local"
    /\ busLog = <<>>
    /\ busFiles = {}
    /\ busSubs = <<>>
    /\ redisInbox = <<>>
    /\ busDelivered = <<>>
    /\ busChecks = 0
    /\ exPrompt = <<"page">>
    /\ exParts = NoParts
    /\ exType = "none"
    /\ exFiles = <<>>
    /\ i \in DOMAIN routeWorkers
    /\ routeWorkers[i].status = "idle"
    /\ routeWorkers' = [routeWorkers EXCEPT ![i].status = "busy"]
    /\ routeSwitched' = routeWorkers[i].worker_id
    /\ routeAgain' = router_route_task(routeTask, routeWorkers', routeRules)
    /\ UNCHANGED <<storeVars, workerVars, mgrVars, cleanupVars, cleanupRet, terminal,
                   events, acquired, poolVars, orderVars, claimVars, valVars,
                   scaleVars, apiVars, launchVars, createVars, routeTask,
                   routeRules, routeResult, delegateVars, busVars,
                   extractVars>>

\* ------------------------------------------------------------ MasterAPI

\* delegate_task: create_task with a fresh timestamp id
CreateTask(p) ==
    LET t == Cardinality(DOMAIN task_master) + 1
    IN  /\ t \in Tasks
        /\ task_master' = (t :> NewTask(p)) @@ task_master
        /\ cleanupRet' = NoReturn
        /\ UNCHANGED <<workers, worker_notifications, workerVars, mgrVars,
                       cleanupVars, terminal, events, acquired, poolVars, orderVars, claimVars,
                       valVars, scaleVars, apiVars, launchVars, createVars,
                       routerVars, delegateVars, busVars, extractVars>>

\* a faulty variant of the insertion below: INSERT OR REPLACE
insert_or_replace_task(tm, task_id, p) == (task_id :> NewTask(p)) @@ tm

\* INSERT INTO task_master (task_id, content, priority, created_by): task_id
\* is the primary key, an existing id raises IntegrityError and the
\* transaction is rolled back
insert_task(tm, task_id, p) ==
    IF task_id \in DOMAIN tm THEN tm ELSE (task_id :> NewTask(p)) @@ tm

\* create_task(task_id, content, priority, created_by): BEGIN IMMEDIATE,
\* INSERT, COMMIT; False on IntegrityError. The priority stands for the
\* content as well
CreateTaskWithId(task_id, p) ==
    /\ Len(createRet[task_id]) < MaxCreates
    /\ task_master' = insert_task(task_master, task_id, p)
    /\ createRet' = [createRet EXCEPT
                        ![task_id] = Append(@, task_id \notin DOMAIN task_master)]
    /\ cleanupRet' = NoReturn
    /\ UNCHANGED <<workers, worker_notifications, workerVars, mgrVars,
                   cleanupVars, terminal, events, acquired, poolVars, orderVars, claimVars,
                   valVars, scaleVars, apiVars, launchVars, routerVars,
                   delegateVars, busVars, extractVars>>

\* resolve_cancel_task: update_task_status(id, 'cancelled')
CancelTask(t) ==
    /\ t \in DOMAIN task_master
    /\ task_master[t].status # "cancelled"
    /\ task_master' = update_task_status(task_master, t, "cancelled")
    /\ cleanupRet' = NoReturn
    /\ events < MaxEvents
    /\ events' = events + 1
    /\ UNCHANGED <<workers, worker_notifications, workerVars, mgrVars,
                   cleanupVars, terminal, acquired, poolVars, orderVars, claimVars,
                   valVars, scaleVars, apiVars, launchVars, createVars,
                   routerVars, delegateVars, busVars, extractVars>>

\* delegate_task with an empty or missing prompt: 400 before any row is
\* written and before execute_task_sync is reached, whatever sync says
DelegateNoPrompt(sync) ==
    /\ dlgPc = "idle"
    /\ dlgResp' = [http |-> 400, status |-> "No prompt provided", task |-> NULL,
                   sync |-> sync, prompt_empty |-> TRUE, result |-> "none"]
    /\ cleanupRet' = NoReturn
    /\ UNCHANGED <<storeVars, workerVars, mgrVars, cleanupVars, terminal, events,
                   acquired, poolVars, orderVars, claimVars, valVars, scaleVars,
                   apiVars, launchVars, createVars, routerVars, dlgPc, dlgTask,
                   busVars, extractVars>>

\* delegate_task with a prompt: create_task under a fresh timestamp id with
\* priority data.get('priority', 5); without sync the answer is delegated,
\* with sync the handler goes on into execute_task_sync
DelegateTask(sync) ==
    LET t == Cardinality(DOMAIN task_master) + 1
    IN  /\ dlgPc = "idle"
        /\ t \in Tasks
        /\ task_master' = (t :> NewTask(DefaultPriority)) @@ task_master
        /\ IF sync
           THEN /\ dlgPc' = "executing"
                /\ dlgTask' = t
                /\ UNCHANGED dlgResp
           ELSE /\ dlgResp' = [http |-> 200, status |-> "delegated", task |-> t,
                               sync |-> FALSE, prompt_empty |-> FALSE,
                               result |-> "none"]
                /\ UNCHANGED <<dlgPc, dlgTask>>
        /\ cleanupRet' = NoReturn
        /\ UNCHANGED <<workers, worker_notifications, workerVars, mgrVars,
                       cleanupVars, terminal, events, acquired, poolVars,
                       orderVars, claimVars, valVars, scaleVars, apiVars,
                       launchVars, createVars, routerVars, busVars,
                       extractVars>>

\* the rest of a sync delegate_task: execute_task_sync has returned its
\* dict, update_task_status(task_id, 'completed', result) and the answer
DelegateExecuted(outcome) ==
    /\ dlgPc = "executing"
    /\ task_master' = update_task_status(task_master, dlgTask, "completed")
    /\ dlgResp' = [http |-> 200, status |-> "completed", task |-> dlgTask,
                   sync |-> TRUE, prompt_empty |-> FALSE, result |-> outcome]
    /\ dlgPc' = "idle"
    /\ dlgTask' = NULL
    /\ cleanupRet' = NoReturn
    /\ UNCHANGED <<workers, worker_notifications, workerVars, mgrVars,
                   cleanupVars, terminal, events, acquired, poolVars,
                   orderVars, claimVars, valVars, scaleVars, apiVars,
                   launchVars, createVars, routerVars, busVars, extractVars>>

\* one time unit passes: every heartbeat grows older
Tick ==
    /\ \E w \in DOMAIN workers : workers[w].age < MaxAge
    /\ workers' = [w \in DOMAIN workers |->
                      [workers[w] EXCEPT !.age = IF @ < MaxAge THEN @ + 1 ELSE @]]
    /\ cleanupRet' = NoReturn
    /\ UNCHANGED <<task_master, worker_notifications, workerVars, mgrVars,
                   cleanupVars, terminal, events, acquired, poolVars, orderVars, claimVars,
                   valVars, scaleVars, apiVars, launchVars, createVars,
                   routerVars, delegateVars, busVars, extractVars>>

\* ------------------------------------------------------------ MessageBus

\* the callbacks handed to subscribe
Handlers == {"h1", "h2"}

\* channel names, as their parts between underscores: tasks, tasks_status
\* and results
Channels == {<<"tasks">>, <<"tasks", "status">>, <<"results">>}

\* get_queue_instance(queue_type): LocalQueue or RedisQueue
QueueTypes == {"local", "redis"}

\* LocalQueue.publish: the name of the notification file,
\* f"{channel}_{timestamp}.json", as its parts between underscores; the
\* publish number stands for the timestamp
notification_file(channel, id) == Append(channel, ToString(id))

\* glob.glob(f"{channel}_*.json") against one file name: the name starts
\* with the channel and an underscore
glob_matches(channel, file) ==
    /\ Len(channel) < Len(file)
    /\ SubSeq(file, 1, Len(channel)) = channel

\* the channels the pubsub connection of a RedisQueue is subscribed to
subscribed_channels(subs) == {subs[i].channel : i \in 1..Len(subs)}

\* one callback(data) call: the handler, the channel the message was
\* published on and its publish number
invocation(callback, id) ==
    [callback |-> callback, channel |-> busLog[id], id |-> id]

\* subscribe(channel, callback). LocalQueue: self.subscribers[channel]
\* gets the callback appended, self.channel and self.callback are set to
\* this call's arguments. RedisQueue: pubsub.subscribe(channel) on the one
\* pubsub connection, and one more thread running _listen_channel(channel,
\* callback) over self.pubsub.listen()
BusSubscribe(channel, callback) ==
    /\ Len(busSubs) < MaxSubscriptions
    /\ busSubs' = Append(busSubs, [channel |-> channel, callback |-> callback])
    /\ UNCHANGED <<storeVars, workerVars, mgrVars, cleanupVars, cleanupRet, terminal,
                   events, acquired, poolVars, orderVars, claimVars, valVars,
                   scaleVars, apiVars, launchVars, createVars, routerVars,
                   delegateVars, queue_type, busLog, busFiles, redisInbox,
                   busDelivered, busChecks, extractVars>>

\* publish(channel, message). LocalQueue: the message is written to a new
\* notification file. RedisQueue: redis_client.publish, which hands the
\* message to the pubsub connection when that is subscribed to the channel
\* (the copy pushed on the list queue:<channel> is read by nobody)
BusPublish(channel) ==
    /\ Len(busLog) < MaxPublished
    /\ busLog' = Append(busLog, channel)
    /\ IF queue_type = "local"
       THEN /\ busFiles' = busFiles \cup {Len(busLog) + 1}
            /\ UNCHANGED redisInbox
       ELSE /\ redisInbox' = IF channel \in subscribed_channels(busSubs)
                             THEN Append(redisInbox, Len(busLog) + 1)
                             ELSE redisInbox
            /\ UNCHANGED busFiles
    /\ UNCHANGED <<storeVars, workerVars, mgrVars, cleanupVars, cleanupRet, terminal,
                   events, acquired, poolVars, orderVars, claimVars, valVars,
                   scaleVars, apiVars, launchVars, createVars, routerVars,
                   delegateVars, queue_type, busSubs, busDelivered, busChecks,
                   extractVars>>

\* LocalQueue.check_for_notifications: the files glob returns for
\* self.channel, in the arbitrary order glob returns them, are each handed
\* to self.callback and removed. Before any subscribe self.channel does
\* not exist and the AttributeError is caught and logged
LocalCheck ==
    /\ queue_type = "local"
    /\ busChecks < MaxChecks
    /\ busChecks' = busChecks + 1
    /\ IF busSubs = <<>>
       THEN UNCHANGED <<busFiles, busDelivered, extractVars>>
       ELSE LET self == busSubs[Len(busSubs)]
                notification_files ==
                    {id \in busFiles :
                        glob_matches(self.channel,
                                     notification_file(busLog[id], id))}
            IN  \E order \in Orderings(notification_files) :
                   /\ busDelivered' = busDelivered \o
                          [i \in 1..Len(order) |->
                              invocation(self.callback, order[i])]
                   /\ busFiles' = busFiles \ notification_files
    /\ UNCHANGED <<storeVars, workerVars, mgrVars, cleanupVars, cleanupRet, terminal,
                   events, acquired, poolVars, orderVars, claimVars, valVars,
                   scaleVars, apiVars, launchVars, createVars, routerVars,
                   delegateVars, queue_type, busLog, busSubs, redisInbox,
                   extractVars>>

\* RedisQueue._listen_channel: the threads started by subscribe all iterate
\* the same self.pubsub.listen(); the next message is read by whichever of
\* them is in the read, and that thread calls its own callback on it,
\* message['channel'] is not looked at
RedisDeliver(thread) ==
    /\ queue_type = "redis"
    /\ redisInbox # <<>>
    /\ thread \in 1..Len(busSubs)
    /\ busChecks < MaxChecks
    /\ busChecks' = busChecks + 1
    /\ busDelivered' = Append(busDelivered,
                              invocation(busSubs[thread].callback, Head(redisInbox)))
    /\ redisInbox' = Tail(redisInbox)
    /\ UNCHANGED <<storeVars, workerVars, mgrVars, cleanupVars, cleanupRet, terminal,
                   events, acquired, poolVars, orderVars, claimVars, valVars,
                   scaleVars, apiVars, launchVars, createVars, routerVars,
                   delegateVars, queue_type, busLog, busSubs, busFiles,
                   extractVars>>

\* --------------------------------------------------- DeliverableExtractor

\* a text is a sequence of characters: "w" a word character, "<" a
\* character that is neither a word character nor whitespace, "nl" a
\* newline, and as one character each a code fence (three backquotes) and
\* the two section markers
BodyChars == {"w", "<", "nl"}
Fence == "fence"
MarkerA == "--- a.html ---"
MarkerB == "--- b.css ---"
MarkerTokens == {MarkerA, MarkerB}

\* the group ([^\s-]+\.\w+) of file_pattern in a marker
marker_filename(tok) == IF tok = MarkerA THEN "a.html" ELSE "b.css"

\* the words of a prompt: one of the keywords of each list of
\* _infer_task_type, or a word that is in none
PromptWords == {"page", "code", "analysis", "translation", "error"}

Prompts == UNION {[1..n -> PromptWords] : n \in 1..MaxPromptLen}

Bodies == UNION {[1..n -> BodyChars] : n \in 0..MaxBodyLen}

\* a section is written bare, between code fences, or between fences of
\* which the first names a language
Wraps == {"none", "fence", "lang"}

\* the characters of a section after its marker
section_text(part) ==
    <<"nl">> \o
    (CASE part.wrap = "none" -> part.body
       [] part.wrap = "fence" -> <<Fence, "nl">> \o part.body \o <<"nl", Fence>>
       [] part.wrap = "lang" -> <<Fence, "w", "nl">> \o part.body \o <<"nl", Fence>>)
    \o <<"nl">>

\* result_text: some words, then the section of a.html and the section of
\* b.css
result_text(parts) ==
    parts.prefix \o <<MarkerA>> \o section_text(parts.a)
                 \o <<MarkerB>> \o section_text(parts.b)

\* keyword in content_lower / keyword in result_lower
has_keyword(text, keywords) == \E i \in 1..Len(text) : text[i] \in keywords

\* _infer_task_type: the first list with a keyword in the prompt or in the
\* result decides
_infer_task_type(task_content, result) ==
    IF has_keyword(task_content, {"code"}) THEN "code_generation"
    ELSE IF has_keyword(result, {"def ", "class ", "import ", "function", Fence})
         THEN "code_generation"
    ELSE IF has_keyword(task_content, {"analysis"}) THEN "data_analysis"
    ELSE IF has_keyword(result, {"##", "###"}) THEN "data_analysis"
    ELSE IF has_keyword(task_content, {"translation"}) THEN "translation"
    ELSE IF has_keyword(result, {"translation:"}) THEN "translation"
    ELSE IF has_keyword(task_content, {"error"}) THEN "error_handling"
    ELSE IF has_keyword(result, {"error", "exception", "failed"})
         THEN "error_handling"
    ELSE "text_generation"

\* str.strip(): whitespace is taken off both ends
strip(text) ==
    LET ink == {i \in 1..Len(text) : text[i] # "nl"}
    IN  IF ink = {} THEN <<>>
        ELSE SubSeq(text, CHOOSE i \in ink : \A j \in ink : i <= j,
                          CHOOSE i \in ink : \A j \in ink : i >= j)

\* re.sub of the pattern ^, three backquotes, \w*, \n? by '': a fence at the very start goes, with
\* the word characters after it and one newline after those
strip_leading_fence(text) ==
    IF text = <<>> \/ text[1] # Fence THEN text
    ELSE LET rest == Tail(text)
             stops == {i \in 1..Len(rest) : rest[i] # "w"}
             k == IF stops = {} THEN Len(rest) + 1
                  ELSE CHOOSE i \in stops : \A j \in stops : i <= j
             after == SubSeq(rest, k, Len(rest))
         IN  IF after # <<>> /\ after[1] = "nl" THEN Tail(after) ELSE after

\* re.sub of the pattern \n?, three backquotes, $ by '': a fence at the very end goes, with one
\* newline before it
strip_trailing_fence(text) ==
    IF text = <<>> \/ text[Len(text)] # Fence THEN text
    ELSE LET before == SubSeq(text, 1, Len(text) - 1)
         IN  IF before # <<>> /\ before[Len(before)] = "nl"
             THEN SubSeq(before, 1, Len(before) - 1)
             ELSE before

\* re.split(file_pattern, result_text): the positions of the markers; the
\* content of a section runs to the next marker or to the end
marker_positions(text) == {i \in 1..Len(text) : text[i] \in MarkerTokens}

section_content(text, i) ==
    LET later == {j \in marker_positions(text) : j > i}
        end == IF later = {} THEN Len(text)
               ELSE (CHOOSE j \in later : \A k \in later : j <= k) - 1
    IN  strip_trailing_fence(strip_leading_fence(strip(SubSeq(text, i + 1, end))))

\* the file of the types that are saved as one file
single_file(task_type) ==
    CASE task_type = "code_generation" -> "task_result.py"
      [] task_type = "data_analysis" -> "task_analysis.md"
      [] task_type = "translation" -> "task_translation.txt"
      [] task_type = "error_handling" -> "task_error_log.txt"
      [] OTHER -> "task_deliverable.txt"

\* _save_formatted_result: for code_generation every section found by the
\* pattern --- filename --- is written to its file, a later section of the
\* same name over an earlier one, and README.md lists the files; anything
\* else is saved as one file, a header and the whole text
_save_formatted_result(text, task_type) ==
    LET pos == marker_positions(text)
        names == {marker_filename(text[i]) : i \in pos}
        last(n) == CHOOSE i \in pos :
                      /\ marker_filename(text[i]) = n
                      /\ \A j \in pos : marker_filename(text[j]) = n => j <= i
    IN  IF task_type = "code_generation" /\ pos # {}
        THEN [n \in names \cup {"README.md"} |->
                 IF n = "README.md" THEN <<"files created">>
                 ELSE section_content(text, last(n))]
        ELSE [n \in {single_file(task_type)} |-> <<"header">> \o text]

\* save_task_deliverable: the type is inferred from the prompt and the
\* result, then the result is saved in the form of that type
SaveTaskDeliverable ==
    /\ exType = "none"
    /\ exType' = _infer_task_type(exPrompt, result_text(exParts))
    /\ exFiles' = _save_formatted_result(result_text(exParts), exType')
    /\ UNCHANGED <<storeVars, workerVars, mgrVars, cleanupVars, cleanupRet, terminal,
                   events, acquired, poolVars, orderVars, claimVars, valVars,
                   scaleVars, apiVars, launchVars, createVars, routerVars,
                   delegateVars, busVars, exPrompt, exParts>>

\* --------------------------------------------------------------- worker

\* GeminiLocalWorker.__init__ / register_worker: DELETE the row of this
\* worker_id, then db.register_worker inserts a fresh one
register_worker(ws, w) == (w :> NewWorker) @@ ws

StartWorker(w) ==
    /\ pc[w] = "stopped"
    /\ workers' = register_worker(workers, w)
    /\ pc' = [pc EXCEPT ![w] = "polling"]
    /\ wtask' = [wtask EXCEPT ![w] = NULL]
    /\ cleanupRet' = NoReturn
    /\ UNCHANGED <<task_master, worker_notifications, mgrVars, cleanupVars,
                   terminal, events, acquired, poolVars, orderVars, claimVars,
                   valVars, scaleVars, apiVars, launchVars, createVars,
                   routerVars, delegateVars, busVars, extractVars>>

\* a variant of the check below that accepts every environment
launched_by_anyone(auth_token) == TRUE

\* GeminiLocalWorker.__init__: WORKER_AUTH_TOKEN is compared with
\* KOUBOU_HOME + '_POOL_MANAGER'
launched_by_pool_manager(auth_token) == auth_token = ExpectedAuth

\* python local_worker.py with WORKER_ID w and the given WORKER_AUTH_TOKEN:
\* on a mismatch __init__ logs and calls sys.exit(1); otherwise it
\* registers the worker, installs the handlers and run() begins
LaunchWorker(w, auth_token) ==
    /\ pc[w] = "stopped"
    /\ launchAuth' = [launchAuth EXCEPT ![w] = auth_token]
    /\ IF launched_by_pool_manager(auth_token)
       THEN /\ workers' = register_worker(workers, w)
            /\ pc' = [pc EXCEPT ![w] = "polling"]
            /\ wtask' = [wtask EXCEPT ![w] = NULL]
            /\ exitStatus' = [exitStatus EXCEPT ![w] = NoExit]
       ELSE /\ exitStatus' = [exitStatus EXCEPT ![w] = 1]
            /\ UNCHANGED <<workers, pc, wtask>>
    /\ cleanupRet' = NoReturn
    /\ UNCHANGED <<task_master, worker_notifications, mgrVars, cleanupVars,
                   terminal, events, acquired, poolVars, orderVars, claimVars,
                   valVars, scaleVars, apiVars, createVars, routerVars,
                   delegateVars, busVars, extractVars>>

Unprocessed(w) ==
    {i \in 1..Len(worker_notifications) :
        /\ worker_notifications[i].worker_id = w
        /\ worker_notifications[i].processed = 0}

\* check_for_task_notifications, a notification found: the oldest unprocessed
\* row of this worker; every row of (worker, task) is marked processed
CheckNotifications(w) ==
    /\ pc[w] = "polling"
    /\ Unprocessed(w) # {}
    /\ LET i == CHOOSE k \in Unprocessed(w) : \A j \in Unprocessed(w) : k <= j
           t == worker_notifications[i].task_id
       IN  /\ worker_notifications' =
                 [k \in 1..Len(worker_notifications) |->
                     IF /\ worker_notifications[k].worker_id = w
                        /\ worker_notifications[k].task_id = t
                     THEN [worker_notifications[k] EXCEPT !.processed = 1]
                     ELSE worker_notifications[k]]
           /\ wtask' = [wtask EXCEPT ![w] = t]
    /\ pc' = [pc EXCEPT ![w] = "notified"]
    /\ cleanupRet' = NoReturn
    /\ UNCHANGED <<task_master, workers, mgrVars, cleanupVars, terminal, events, acquired, poolVars, orderVars, claimVars,
                   valVars, scaleVars, apiVars, launchVars, createVars,
                   routerVars, delegateVars, busVars, extractVars>>

\* run(), check_for_task_notifications found nothing on the tenth idle
\* iteration: the loop sleeps for a second before it writes its heartbeat
\* (the idle iterations before the tenth change nothing)
IdleCheck(w) ==
    /\ pc[w] = "polling"
    /\ Unprocessed(w) = {}
    /\ w \in DOMAIN workers
    /\ pc' = [pc EXCEPT ![w] = "heartbeat"]
    /\ cleanupRet' = NoReturn
    /\ UNCHANGED <<storeVars, wtask, mgrVars, cleanupVars, terminal, events, acquired, poolVars, orderVars, claimVars,
                   valVars, scaleVars, apiVars, launchVars, createVars,
                   routerVars, delegateVars, busVars, extractVars>>

\* run(), after the sleep: update_worker_status(worker_id, 'idle', None)
IdleHeartbeat(w) ==
    /\ pc[w] = "heartbeat"
    /\ workers' = update_worker_status(workers, w, "idle", NULL)
    /\ pc' = [pc EXCEPT ![w] = "polling"]
    /\ cleanupRet' = NoReturn
    /\ UNCHANGED <<task_master, worker_notifications, wtask, mgrVars,
                   cleanupVars, terminal, events, acquired, poolVars, orderVars, claimVars,
                   valVars, scaleVars, apiVars, launchVars, createVars,
                   routerVars, delegateVars, busVars, extractVars>>

\* a faulty variant of the clause below: the status is not looked at
assigned_whatever_status(tm, t, w) ==
    t \in DOMAIN tm /\ tm[t].assigned_to = w

\* the WHERE clause of get_assigned_task
assigned_to_me(tm, t, w) ==
    t \in DOMAIN tm /\ tm[t].assigned_to = w /\ tm[t].status = "in_progress"

\* get_assigned_task: the task of the notification, if it is this worker's
GetAssignedTask(w) ==
    /\ pc[w] = "notified"
    /\ IF assigned_to_me(task_master, wtask[w], w)
       THEN /\ pc' = [pc EXCEPT ![w] = "fetched"]
            /\ UNCHANGED wtask
       ELSE /\ pc' = [pc EXCEPT ![w] = "polling"]
            /\ wtask' = [wtask EXCEPT ![w] = NULL]
    /\ cleanupRet' = NoReturn
    /\ UNCHANGED <<storeVars, mgrVars, cleanupVars, terminal, events, acquired, poolVars, orderVars, claimVars,
                   valVars, scaleVars, apiVars, launchVars, createVars,
                   routerVars, delegateVars, busVars, extractVars>>

\* get_next_task: pull the top pending task with acquire_next_task
GetNextTask(w) ==
    /\ pc[w] = "polling"
    /\ acquire_result(task_master, w) # NULL
    /\ acquire_next_task(w)
    /\ pc' = [pc EXCEPT ![w] = "fetched"]
    /\ wtask' = [wtask EXCEPT ![w] = acquire_result(task_master, w)]
    /\ cleanupRet' = NoReturn
    /\ events < MaxEvents
    /\ events' = events + 1
    /\ UNCHANGED <<worker_notifications, mgrVars, cleanupVars, terminal, acquired, poolVars, orderVars, claimVars,
                   valVars, scaleVars, apiVars, launchVars, createVars,
                   routerVars, delegateVars, busVars, extractVars>>

\* process_task past validation: update_worker_status(worker_id,
\* 'processing', task_id), then the executor runs
BeginProcessing(w) ==
    /\ pc[w] = "fetched"
    /\ workers' = update_worker_status(workers, w, "processing", wtask[w])
    /\ pc' = [pc EXCEPT ![w] = "processing"]
    /\ cleanupRet' = NoReturn
    /\ UNCHANGED <<task_master, worker_notifications, wtask, mgrVars,
                   cleanupVars, terminal, events, acquired, poolVars, orderVars, claimVars,
                   valVars, scaleVars, apiVars, launchVars, createVars,
                   routerVars, delegateVars, busVars, extractVars>>

\* RemoteWorker.send_heartbeat, the side thread of a remote worker's executor:
\* UPDATE workers SET last_heartbeat = now, status = 'busy'
RemoteHeartbeat(w) ==
    /\ pc[w] = "processing"
    /\ Location(w) = "remote"
    /\ w \in DOMAIN workers
    /\ workers[w].age # 0 \/ workers[w].status # "busy"
    /\ workers' = [workers EXCEPT ![w].age = 0, ![w].status = "busy"]
    /\ cleanupRet' = NoReturn
    /\ UNCHANGED <<task_master, worker_notifications, workerVars, mgrVars,
                   cleanupVars, terminal, events, acquired, poolVars, orderVars, claimVars,
                   valVars, scaleVars, apiVars, launchVars, createVars,
                   routerVars, delegateVars, busVars, extractVars>>

\* update_task_result: complete_task_with_stats(task_id, worker_id, result,
\* success); the loop goes back to polling whatever the call returns
update_task_result(w, success) ==
    /\ terminal[w] < MaxTerminal
    /\ complete_task_with_stats(wtask[w], w, success)
    /\ terminal' = [terminal EXCEPT ![w] =
                       IF complete_matches(task_master, wtask[w], w) THEN @ + 1 ELSE @]
    /\ pc' = [pc EXCEPT ![w] = "polling"]
    /\ wtask' = [wtask EXCEPT ![w] = NULL]
    /\ cleanupRet' = NoReturn
    /\ UNCHANGED <<worker_notifications, mgrVars, cleanupVars, events, acquired, poolVars, orderVars, claimVars,
                   valVars, scaleVars, apiVars, launchVars, createVars,
                   routerVars, delegateVars, busVars, extractVars>>

\* process_task returns early (path validation failed, or the prompt is
\* empty): the task is recorded as failed without running the executor
RejectTask(w) ==
    /\ pc[w] = "fetched"
    /\ update_task_result(w, FALSE)

\* the executor returned: the result is recorded
FinishTask(w, success) ==
    /\ pc[w] = "processing"
    /\ update_task_result(w, success)

\* process_task raises before the executor runs (a files entry of the task
\* that is not a list of strings makes the path validation raise): run()
\* catches the exception outside its loop, writes
\* update_worker_status(worker_id, 'offline', None) and returns
ProcessingError(w) ==
    /\ pc[w] = "fetched"
    /\ workers' = update_worker_status(workers, w, "offline", NULL)
    /\ pc' = [pc EXCEPT ![w] = "stopped"]
    /\ wtask' = [wtask EXCEPT ![w] = NULL]
    /\ cleanupRet' = NoReturn
    /\ UNCHANGED <<task_master, worker_notifications, mgrVars, cleanupVars,
                   terminal, events, acquired, poolVars, orderVars, claimVars,
                   valVars, scaleVars, apiVars, launchVars, createVars,
                   routerVars, delegateVars, busVars, extractVars>>

\* the process is killed or crashes: nothing is written
KillWorker(w) ==
    /\ pc[w] # "stopped"
    /\ pc' = [pc EXCEPT ![w] = "stopped"]
    /\ wtask' = [wtask EXCEPT ![w] = NULL]
    /\ cleanupRet' = NoReturn
    /\ events < MaxEvents
    /\ events' = events + 1
    /\ UNCHANGED <<storeVars, mgrVars, cleanupVars, terminal, acquired, poolVars, orderVars, claimVars,
                   valVars, scaleVars, apiVars, launchVars, createVars,
                   routerVars, delegateVars, busVars, extractVars>>

\* SIGTERM: cleanup_handler -> cleanup: update_worker_status(worker_id,
\* 'offline', None), then exit
ShutdownWorker(w) ==
    /\ pc[w] # "stopped"
    /\ workers' = update_worker_status(workers, w, "offline", NULL)
    /\ pc' = [pc EXCEPT ![w] = "stopped"]
    /\ wtask' = [wtask EXCEPT ![w] = NULL]
    /\ cleanupRet' = NoReturn
    /\ events < MaxEvents
    /\ events' = events + 1
    /\ UNCHANGED <<task_master, worker_notifications, mgrVars, cleanupVars,
                   terminal, acquired, poolVars, orderVars, claimVars,
                   valVars, scaleVars, apiVars, launchVars, createVars,
                   routerVars, delegateVars, busVars, extractVars>>

\* --------------------------------------------------------- simple worker

\* SimpleWorker.get_next_task, first part: db.get_pending_tasks(limit=1)
\* and db.assign_task_to_worker(task_id, worker_id), which sets the row
\* in_progress and assigned_to when it is still pending
SimpleGetNextTask(w) ==
    /\ pc[w] = "polling"
    /\ get_pending_tasks(task_master, 1) # <<>>
    /\ LET task_id == get_pending_tasks(task_master, 1)[1]
       IN  /\ task_master' = [task_master EXCEPT ![task_id].status = "in_progress",
                                                 ![task_id].assigned_to = w]
           /\ wtask' = [wtask EXCEPT ![w] = task_id]
    /\ pc' = [pc EXCEPT ![w] = "picked"]
    /\ cleanupRet' = NoReturn
    /\ UNCHANGED <<workers, worker_notifications, mgrVars, cleanupVars, terminal,
                   events, acquired, poolVars, orderVars, claimVars, valVars,
                   scaleVars, apiVars, launchVars, createVars, routerVars,
                   delegateVars, busVars, extractVars>>

\* SimpleWorker.get_next_task, second part:
\* db.update_worker_status(worker_id, 'busy', task_id); process_task begins
SimpleBusy(w) ==
    /\ pc[w] = "picked"
    /\ workers' = update_worker_status(workers, w, "busy", wtask[w])
    /\ pc' = [pc EXCEPT ![w] = "processing"]
    /\ cleanupRet' = NoReturn
    /\ UNCHANGED <<task_master, worker_notifications, wtask, mgrVars, cleanupVars,
                   terminal, events, acquired, poolVars, orderVars, claimVars,
                   valVars, scaleVars, apiVars, launchVars, createVars,
                   routerVars, delegateVars, busVars, extractVars>>

\* SimpleWorker.update_task_result: db.update_task_status(task_id,
\* 'completed'); the next call, db.update_worker_stats, is no method of the
\* database manager, so the except clause ends the function and the row of
\* the worker is left as it is until the next idle heartbeat
SimpleFinish(w) ==
    /\ pc[w] = "processing"
    /\ task_master' = update_task_status(task_master, wtask[w], "completed")
    /\ wtask' = [wtask EXCEPT ![w] = NULL]
    /\ pc' = [pc EXCEPT ![w] = "polling"]
    /\ cleanupRet' = NoReturn
    /\ UNCHANGED <<workers, worker_notifications, mgrVars, cleanupVars, terminal,
                   events, acquired, poolVars, orderVars, claimVars, valVars,
                   scaleVars, apiVars, launchVars, createVars, routerVars,
                   delegateVars, busVars, extractVars>>

\* SimpleWorker.run, no task found on the tenth idle iteration: the loop
\* sleeps for a second before it writes its heartbeat
SimpleIdle(w) ==
    /\ pc[w] = "polling"
    /\ get_pending_tasks(task_master, 1) = <<>>
    /\ w \in DOMAIN workers
    /\ pc' = [pc EXCEPT ![w] = "heartbeat"]
    /\ cleanupRet' = NoReturn
    /\ UNCHANGED <<storeVars, wtask, mgrVars, cleanupVars, terminal, events,
                   acquired, poolVars, orderVars, claimVars, valVars, scaleVars,
                   apiVars, launchVars, createVars, routerVars, delegateVars,
                   busVars, extractVars>>

\* --------------------------------------------------------- pool manager

NextTask(q) == IF Tail(q) = <<>> THEN "health" ELSE "assign"

\* an in_progress task whose assigned worker's row says offline
Orphaned(tm, ws, t) ==
    /\ t \in DOMAIN tm
    /\ tm[t].status = "in_progress"
    /\ tm[t].assigned_to \in DOMAIN ws
    /\ ws[tm[t].assigned_to].status = "offline"

\* monitor_loop: SELECT the pending tasks, ORDER BY priority DESC,
\* created_at ASC LIMIT 10
MonitorSelect ==
    /\ mgrPc = "select"
    /\ tickOrphans' = {t \in DOMAIN task_master : Orphaned(task_master, workers, t)}
    /\ mgrQueue' = get_pending_tasks(task_master, PendingLimit)
    /\ mgrPc' = IF get_pending_tasks(task_master, PendingLimit) = <<>>
                THEN "health" ELSE "assign"
    /\ cleanupRet' = NoReturn
    /\ UNCHANGED <<storeVars, workerVars, mgrSel, cleanupVars, terminal, events, acquired, poolVars, orderVars, claimVars,
                   valVars, scaleVars, apiVars, launchVars, createVars,
                   routerVars, delegateVars, busVars, extractVars>>

\* UPDATE workers SET status = 'busy', current_task = ? WHERE worker_id = ?
assign_mark_worker(ws, w, t) ==
    IF w \in DOMAIN ws
    THEN [ws EXCEPT ![w].status = "busy", ![w].current_task = t]
    ELSE ws

\* UPDATE task_master SET status = 'in_progress', assigned_to = ?
\* WHERE task_id = ?
assign_mark_task(tm, t, w) ==
    IF t \in DOMAIN tm
    THEN [tm EXCEPT ![t].status = "in_progress", ![t].assigned_to = w]
    ELSE tm

\* assign_task_to_worker, no worker available: the task is skipped
AssignNone ==
    /\ mgrPc = "assign"
    /\ AvailableSet(workers) = {}
    /\ mgrQueue' = Tail(mgrQueue)
    /\ mgrPc' = NextTask(mgrQueue)
    /\ cleanupRet' = NoReturn
    /\ UNCHANGED tickOrphans
    /\ UNCHANGED <<storeVars, workerVars, mgrSel, cleanupVars, terminal, events, acquired, poolVars, orderVars, claimVars,
                   valVars, scaleVars, apiVars, launchVars, createVars,
                   routerVars, delegateVars, busVars, extractVars>>

\* assign_task_to_worker: route the task to an available worker, mark the
\* worker busy and the task in_progress
AssignTask ==
    /\ mgrPc = "assign"
    /\ AvailableSet(workers) # {}
    /\ Len(worker_notifications) < MaxNotifications
    /\ \E available \in Orderings(AvailableSet(workers)) :
         LET t == Head(mgrQueue)
             w == route_task(workers, available)
         IN  /\ workers' = assign_mark_worker(workers, w, t)
             /\ task_master' = assign_mark_task(task_master, t, w)
             /\ mgrSel' = <<t, w>>
    /\ mgrPc' = "notify"
    /\ cleanupRet' = NoReturn
    /\ UNCHANGED tickOrphans
    /\ UNCHANGED <<worker_notifications, workerVars, mgrQueue, cleanupVars,
                   terminal, events, acquired, poolVars, orderVars, claimVars,
                   valVars, scaleVars, apiVars, launchVars, createVars,
                   routerVars, delegateVars, busVars, extractVars>>

\* notify_worker_task_assignment: INSERT INTO worker_notifications
NotifyWorker ==
    /\ mgrPc = "notify"
    /\ worker_notifications' = Append(worker_notifications,
           [worker_id |-> mgrSel[2], task_id |-> mgrSel[1], processed |-> 0])
    /\ mgrSel' = <<NULL, NULL>>
    /\ mgrQueue' = Tail(mgrQueue)
    /\ mgrPc' = NextTask(mgrQueue)
    /\ cleanupRet' = NoReturn
    /\ UNCHANGED tickOrphans
    /\ UNCHANGED <<task_master, workers, workerVars, cleanupVars, terminal, events, acquired, poolVars, orderVars, claimVars,
                   valVars, scaleVars, apiVars, launchVars, createVars,
                   routerVars, delegateVars, busVars, extractVars>>

\* notify_worker_task_assignment, the except branch: the INSERT raised (the
\* database stayed locked, the disk is full), the error is logged, False is
\* returned and assign_task_to_worker goes on without looking at it
NotifyFails ==
    /\ mgrPc = "notify"
    /\ mgrSel' = <<NULL, NULL>>
    /\ mgrQueue' = Tail(mgrQueue)
    /\ mgrPc' = NextTask(mgrQueue)
    /\ cleanupRet' = NoReturn
    /\ UNCHANGED tickOrphans
    /\ UNCHANGED <<storeVars, workerVars, cleanupVars, terminal, events, acquired,
                   poolVars, orderVars, claimVars, valVars, scaleVars, apiVars,
                   launchVars, createVars, routerVars, delegateVars, busVars,
                   extractVars>>

\* UPDATE workers SET status = 'offline'
\* WHERE datetime('now', '-60 seconds') > last_heartbeat AND status != 'offline'
check_worker_health(ws) ==
    [w \in DOMAIN ws |->
        IF ws[w].age > TDead /\ ws[w].status # "offline"
        THEN [ws[w] EXCEPT !.status = "offline"]
        ELSE ws[w]]

\* the end of one iteration of monitor_loop: check_worker_health, sleep
CheckWorkerHealth ==
    /\ mgrPc = "health"
    /\ workers' = check_worker_health(workers)
    /\ mgrPc' = "select"
    /\ cleanupRet' = NoReturn
    /\ tickOrphans' = {}
    /\ UNCHANGED <<task_master, worker_notifications, workerVars, mgrQueue,
                   mgrSel, cleanupVars, terminal, events, acquired, poolVars, orderVars, claimVars,
                   valVars, scaleVars, apiVars, launchVars, createVars,
                   routerVars, delegateVars, busVars, extractVars>>

\* ------------------------------------------------ cleanup_dead_workers

\* first statement (autocommit): the tasks of the dead workers go back to
\* pending
CleanupResetTasks ==
    /\ cleanupPc = "idle"
    /\ task_master' = cleanup_reset_tasks(task_master, workers)
    /\ cleanupReset' = DeadWorkers(workers)
    /\ cleanupTasks' = {t \in DOMAIN task_master :
                           /\ task_master[t].status = "in_progress"
                           /\ task_master[t].assigned_to \in DeadWorkers(workers)}
    /\ cleanupPc' = "deleting"
    /\ events < MaxEvents
    /\ events' = events + 1
    /\ UNCHANGED <<workers, worker_notifications, workerVars, mgrVars,
                   cleanupRet, terminal, acquired, poolVars, orderVars, claimVars,
                   valVars, scaleVars, apiVars, launchVars, createVars,
                   routerVars, delegateVars, busVars, extractVars>>

\* second statement (autocommit): the rows of the dead workers are deleted;
\* the call returns cursor.rowcount
CleanupDeleteWorkers ==
    /\ cleanupPc = "deleting"
    /\ workers' = cleanup_delete_workers(workers)
    /\ cleanupRet' = Cardinality(DeadWorkers(workers))
    /\ cleanupReset' = {}
    /\ cleanupTasks' = {}
    /\ cleanupPc' = "idle"
    /\ UNCHANGED <<task_master, worker_notifications, workerVars, mgrVars,
                   terminal, events, acquired, poolVars, orderVars, claimVars,
                   valVars, scaleVars, apiVars, launchVars, createVars,
                   routerVars, delegateVars, busVars, extractVars>>

\* ------------------------------------------------- WorkerPoolManager

\* get_active_task_count: tasks counted as in_progress or processing
ActiveTasks(tm) == {t \in DOMAIN tm : tm[t].status \in {"in_progress", "processing"}}

\* get_pending_task_count
get_pending_task_count(tm) == Cardinality(PendingSet(tm))

\* db.get_active_workers(60): rows whose heartbeat is younger than 60 s,
\* whatever their status
get_active_workers(ws) == {w \in DOMAIN ws : ws[w].age < TDead}

\* get_idle_workers: db.get_active_workers(30) filtered on status idle.
\* Half a time unit cannot be told from the age, so a row younger than 60 s
\* may or may not be in the list: these are the rows that can be
IdleCandidates(ws) == {w \in get_active_workers(ws) : ws[w].status = "idle"}

Min(a, b) == IF a < b THEN a ELSE b

Min3(a, b, c) == Min(Min(a, b), c)

\* scale_workers with the queue check left out
scale_up_ignores_queue_limit(pending, active, active_workers, maxw) ==
    IF pending > 0 /\ active_workers = 0 THEN 1
    ELSE IF pending > 0 /\ active < MaxActiveTasks /\ active_workers < maxw
         THEN Min3(pending, MaxActiveTasks - active, maxw - active_workers)
         ELSE 0

\* scale_workers: the number of spawn_worker calls it decides on
scale_up_count(pending, active, active_workers, maxw) ==
    IF active >= MaxActiveTasks THEN 0
    ELSE IF pending > 0 /\ active_workers = 0 THEN 1
    ELSE IF pending > 0 /\ active < MaxActiveTasks /\ active_workers < maxw
         THEN Min3(pending, MaxActiveTasks - active, maxw - active_workers)
         ELSE 0

\* scale_workers: the number of workers its last branch wants to remove
scale_down_count(pending, active, active_workers, minw) ==
    IF /\ active < MaxActiveTasks
       /\ pending = 0
       /\ active_workers > minw
    THEN active_workers - minw
    ELSE 0

\* a worker id never used before: spawn_worker names a worker by the time
FreshIds == {w \in Workers : pc[w] = "stopped" /\ w \notin DOMAIN workers}

\* the keys of self.workers
PoolWorkerSet == {poolWorkers[i] : i \in DOMAIN poolWorkers}

RECURSIVE AscendingSeq(_)
\* the ids of S in the order the spawning loop creates them
AscendingSeq(S) ==
    IF S = {} THEN <<>>
    ELSE LET first == CHOOSE x \in S : \A y \in S : x <= y
         IN  <<first>> \o AscendingSeq(S \ {first})

\* spawn_worker for each id of S: the process is started, it is entered
\* in self.workers (a dict: a new key goes to the end) and its row is
\* registered
spawn_workers(S) ==
    /\ workers' = [w \in S |-> NewWorker] @@ workers
    /\ pc' = [w \in Workers |-> IF w \in S THEN "polling" ELSE pc[w]]
    /\ wtask' = [w \in Workers |-> IF w \in S THEN NULL ELSE wtask[w]]
    /\ poolWorkers' = poolWorkers \o AscendingSeq(S \ PoolWorkerSet)

\* run: the initial min_workers workers are spawned before the loop
PoolStart ==
    /\ poolPc = "start"
    /\ \E S \in SUBSET FreshIds :
        /\ Cardinality(S) = min_workers
        /\ spawn_workers(S)
    /\ poolPc' = "tick"
    /\ cleanupRet' = NoReturn
    /\ UNCHANGED <<task_master, worker_notifications, mgrVars, cleanupVars,
                   terminal, events, acquired, poolPending, poolActive, poolSpawn, orderVars, claimVars,
                   valVars, scaleVars, apiVars, launchVars, createVars,
                   routerVars, delegateVars, busVars, extractVars>>

\* scale_workers, first statement: pending_tasks is read
PoolReadPending ==
    /\ poolPc = "tick"
    /\ poolPending' = get_pending_task_count(task_master)
    /\ poolPc' = "read_active"
    /\ cleanupRet' = NoReturn
    /\ UNCHANGED <<storeVars, workerVars, mgrVars, cleanupVars, terminal, events,
                   acquired, poolActive, poolSpawn, poolWorkers, orderVars, claimVars,
                   valVars, scaleVars, apiVars, launchVars, createVars,
                   routerVars, delegateVars, busVars, extractVars>>

\* scale_workers, second statement: active_tasks is read
PoolReadActive ==
    /\ poolPc = "read_active"
    /\ poolActive' = Cardinality(ActiveTasks(task_master))
    /\ poolPc' = "decide"
    /\ cleanupRet' = NoReturn
    /\ UNCHANGED <<storeVars, workerVars, mgrVars, cleanupVars, terminal, events,
                   acquired, poolPending, poolSpawn, poolWorkers, orderVars, claimVars,
                   valVars, scaleVars, apiVars, launchVars, createVars,
                   routerVars, delegateVars, busVars, extractVars>>

\* shutdown_worker for each id of S: a process of this manager is
\* terminated and forgotten, and the row is set offline in any case
shutdown_workers(S) ==
    /\ pc' = [w \in Workers |-> IF w \in S \cap PoolWorkerSet THEN "stopped" ELSE pc[w]]
    /\ wtask' = [w \in Workers |-> IF w \in S \cap PoolWorkerSet THEN NULL ELSE wtask[w]]
    /\ workers' = [w \in DOMAIN workers |->
                      IF w \in S
                      THEN update_worker_status(workers, w, "offline", NULL)[w]
                      ELSE workers[w]]
    /\ poolWorkers' = SelectSeq(poolWorkers, LAMBDA w : w \notin S)

\* scale_workers, the rest: active_workers is read and the branch is
\* taken; scaling up leaves the spawn_worker calls to be made, scaling
\* down reads the idle workers and leaves the first workers_to_remove of
\* them to be shut down
PoolDecide ==
    /\ poolPc = "decide"
    /\ LET active_workers == Cardinality(get_active_workers(workers))
           up == scale_up_count(poolPending, poolActive, active_workers, max_workers)
           down == scale_down_count(poolPending, poolActive, active_workers, min_workers)
       IN  IF up > 0
           THEN /\ poolSpawn' = up
                /\ poolPc' = "spawn"
                /\ poolIdle' = {}
           ELSE /\ poolSpawn' = 0
                /\ \E S \in SUBSET IdleCandidates(workers) :
                    /\ Cardinality(S) <= down
                    /\ poolIdle' = S
                    /\ poolPc' = IF S = {} THEN "cleanup" ELSE "shutdown"
    /\ cleanupRet' = NoReturn
    /\ UNCHANGED <<storeVars, workerVars, mgrVars, cleanupVars,
                   terminal, events, acquired, poolPending, poolActive, poolWorkers,
                   orderVars, claimVars, valVars, min_workers, max_workers, apiVars,
                   launchVars, createVars, routerVars, delegateVars, busVars,
                   extractVars>>

\* one spawn_worker call of scale_workers
PoolSpawn ==
    /\ poolPc = "spawn"
    /\ poolSpawn > 0
    /\ \E w \in FreshIds : spawn_workers({w})
    /\ poolSpawn' = poolSpawn - 1
    /\ poolPc' = IF poolSpawn = 1 THEN "cleanup" ELSE "spawn"
    /\ cleanupRet' = NoReturn
    /\ UNCHANGED <<task_master, worker_notifications, mgrVars, cleanupVars,
                   terminal, events, acquired, poolPending, poolActive, orderVars, claimVars,
                   valVars, scaleVars, apiVars, launchVars, createVars,
                   routerVars, delegateVars, busVars, extractVars>>

\* one shutdown_worker call of scale_workers, for a worker of the idle
\* list read before
PoolShutdown ==
    /\ poolPc = "shutdown"
    /\ \E w \in poolIdle :
        /\ shutdown_workers({w})
        /\ poolIdle' = poolIdle \ {w}
        /\ poolPc' = IF poolIdle = {w} THEN "cleanup" ELSE "shutdown"
    /\ cleanupRet' = NoReturn
    /\ UNCHANGED <<task_master, worker_notifications, mgrVars, cleanupVars,
                   terminal, events, acquired, poolPending, poolActive, poolSpawn,
                   orderVars, claimVars, valVars, min_workers, max_workers, apiVars,
                   launchVars, createVars, routerVars, delegateVars, busVars,
                   extractVars>>

\* a faulty variant of the update below: the row is left as it is
mark_nothing(row) == row

\* cleanup_dead_workers: UPDATE workers SET status = 'offline' WHERE
\* worker_id = ?
mark_offline(row) == [row EXCEPT !.status = "offline"]

\* WorkerPoolManager.cleanup_dead_workers: every process of self.workers
\* that has exited is forgotten and its row set offline. The terminate()
\* in the second loop is called on the variable the first loop left
\* behind, the process of the last key of self.workers, once per dead
\* worker: a live process there gets SIGTERM and runs its cleanup. Then
\* the loop sleeps until the next tick
PoolCleanup ==
    /\ poolPc = "cleanup"
    /\ LET dead == {w \in PoolWorkerSet : pc[w] = "stopped"}
           last == IF dead = {} THEN {} ELSE {poolWorkers[Len(poolWorkers)]} \ dead
           ws == [w \in DOMAIN workers |->
                     IF w \in last
                     THEN update_worker_status(workers, w, "offline", NULL)[w]
                     ELSE workers[w]]
       IN  /\ workers' = [w \in DOMAIN ws |->
                             IF w \in dead THEN mark_offline(ws[w]) ELSE ws[w]]
           /\ pc' = [w \in Workers |-> IF w \in last THEN "stopped" ELSE pc[w]]
           /\ wtask' = [w \in Workers |-> IF w \in last THEN NULL ELSE wtask[w]]
           /\ poolWorkers' = SelectSeq(poolWorkers, LAMBDA w : w \notin dead)
    /\ poolPc' = "tick"
    /\ cleanupRet' = NoReturn
    /\ UNCHANGED <<task_master, worker_notifications, mgrVars,
                   cleanupVars, terminal, events, acquired, poolPending,
                   poolActive, poolSpawn, orderVars, claimVars, valVars,
                   scaleVars, apiVars, launchVars, createVars, routerVars,
                   delegateVars, busVars, extractVars>>

\* ------------------------------------------------------- PoolManagerAPI

\* request.get('auth_token'): the right token, another string, or None
\* when the request carries no token
Tokens == {ControlToken, "wrong_token", NoToken}

\* a variant of the check below that lets every request through
authenticated_whatever_token(token) == TRUE

\* _handle_client: a control request passes when token == control_token
authenticated(token) == token = ControlToken

\* _handle_client, the refusal: the response is sent and the handler returns
refuse_request ==
    /\ apiResp' = "Authentication failed"
    /\ UNCHANGED <<storeVars, workerVars, poolVars, scaleVars>>

\* _handle_client up to the command: the request is received
receive_request(token, command) ==
    /\ apiCount < MaxRequests
    /\ apiCount' = apiCount + 1
    /\ apiReq' = [token |-> token, command |-> command]
    /\ cleanupRet' = NoReturn
    /\ UNCHANGED <<mgrVars, cleanupVars, terminal, events, acquired,
                   orderVars, claimVars, valVars, launchVars, createVars,
                   routerVars, delegateVars, busVars, extractVars>>

\* scale_workers run to its end by the thread of the handler
scale_workers(minw, maxw) ==
    LET pending == get_pending_task_count(task_master)
        active == Cardinality(ActiveTasks(task_master))
        active_workers == Cardinality(get_active_workers(workers))
        up == scale_up_count(pending, active, active_workers, maxw)
        down == scale_down_count(pending, active, active_workers, minw)
    IN  IF up > 0
        THEN \E S \in SUBSET FreshIds :
                /\ Cardinality(S) = Min(up, Cardinality(FreshIds))
                /\ spawn_workers(S)
        ELSE \E S \in SUBSET IdleCandidates(workers) :
                /\ Cardinality(S) <= down
                /\ shutdown_workers(S)

\* command spawn_worker: worker_id is NULL, and a fresh id is made, or it
\* names a worker that is not running
ControlSpawnWorker(token, worker_id) ==
    /\ receive_request(token, "spawn_worker")
    /\ IF authenticated(token)
       THEN /\ IF worker_id = NULL
               THEN \E w \in FreshIds : spawn_workers({w})
               ELSE pc[worker_id] = "stopped" /\ spawn_workers({worker_id})
            /\ apiResp' = "success"
            /\ UNCHANGED <<task_master, worker_notifications, poolPc, poolPending,
                           poolActive, poolSpawn, scaleVars>>
       ELSE refuse_request

\* command shutdown_worker
ControlShutdownWorker(token, worker_id) ==
    /\ receive_request(token, "shutdown_worker")
    /\ IF authenticated(token)
       THEN /\ IF worker_id \notin PoolWorkerSet
               THEN /\ apiResp' = "not found"
                    /\ UNCHANGED <<workers, workerVars, poolWorkers>>
               ELSE /\ apiResp' = "success"
                    /\ shutdown_workers({worker_id})
            /\ UNCHANGED <<task_master, worker_notifications, poolPc, poolPending,
                           poolActive, poolSpawn, scaleVars>>
       ELSE refuse_request

\* command scale: the limits are checked and stored, then scale_workers runs
ControlScale(token, minw, maxw) ==
    /\ receive_request(token, "scale")
    /\ IF authenticated(token)
       THEN /\ IF minw < 0 \/ maxw < minw
               THEN /\ apiResp' = "Invalid scaling parameters"
                    /\ UNCHANGED <<workers, workerVars, poolWorkers, min_workers,
                                   max_workers>>
               ELSE /\ apiResp' = "success"
                    /\ min_workers' = minw
                    /\ max_workers' = maxw
                    /\ scale_workers(minw, maxw)
            /\ UNCHANGED <<task_master, worker_notifications, poolPc, poolPending,
                           poolActive, poolSpawn, poolIdle>>
       ELSE refuse_request

\* command force_scale
ControlForceScale(token) ==
    /\ receive_request(token, "force_scale")
    /\ IF authenticated(token)
       THEN /\ apiResp' = "success"
            /\ scale_workers(min_workers, max_workers)
            /\ UNCHANGED <<task_master, worker_notifications, poolPc, poolPending,
                           poolActive, poolSpawn, scaleVars>>
       ELSE refuse_request

\* command shutdown_all: shutdown_worker for every key of self.workers
ControlShutdownAll(token) ==
    /\ receive_request(token, "shutdown_all")
    /\ IF authenticated(token)
       THEN /\ apiResp' = "success"
            /\ shutdown_workers(PoolWorkerSet)
            /\ UNCHANGED <<task_master, worker_notifications, poolPc, poolPending,
                           poolActive, poolSpawn, scaleVars>>
       ELSE refuse_request

\* command restart_worker: shutdown_worker, then spawn_worker with a
\* fresh id
ControlRestartWorker(token, worker_id) ==
    /\ receive_request(token, "restart_worker")
    /\ IF authenticated(token)
       THEN /\ IF worker_id \notin PoolWorkerSet
               THEN /\ apiResp' = "not found"
                    /\ UNCHANGED <<workers, workerVars, poolWorkers>>
               ELSE \E new_id \in FreshIds :
                    /\ apiResp' = "success"
                    /\ workers' = (new_id :> NewWorker) @@
                                  update_worker_status(workers, worker_id, "offline", NULL)
                    /\ pc' = [pc EXCEPT ![worker_id] = "stopped", ![new_id] = "polling"]
                    /\ wtask' = [wtask EXCEPT ![worker_id] = NULL, ![new_id] = NULL]
                    /\ poolWorkers' = Append(SelectSeq(poolWorkers,
                                                       LAMBDA w : w # worker_id), new_id)
            /\ UNCHANGED <<task_master, worker_notifications, poolPc, poolPending,
                           poolActive, poolSpawn, scaleVars>>
       ELSE refuse_request

\* any other command
ControlUnknown(token) ==
    /\ receive_request(token, "unknown")
    /\ IF authenticated(token)
       THEN /\ apiResp' = "Unknown control command"
            /\ UNCHANGED <<storeVars, workerVars, poolVars, scaleVars>>
       ELSE refuse_request

\* ------------------------------------------------------- specification

Init ==
    /\ task_master = <<>>
    /\ workers = <<>>
    /\ worker_notifications = <<>>
    /\ pc = [w \in Workers |-> "stopped"]
    /\ wtask = [w \in Workers |-> NULL]
    /\ mgrPc = "select"
    /\ mgrQueue = <<>>
    /\ mgrSel = <<NULL, NULL>>
    /\ tickOrphans = {}
    /\ cleanupPc = "idle"
    /\ cleanupReset = {}
    /\ cleanupTasks = {}
    /\ cleanupRet = NoReturn
    /\ terminal = [w \in Workers |-> 0]
    /\ events = 0
    /\ acquired = [w \in Workers |-> NoCall]
    /\ poolPc = "start"
    /\ poolPending = 0
    /\ poolActive = 0
    /\ poolSpawn = 0
    /\ poolWorkers = <<>>
    /\ claimed = [w \in Workers |-> <<>>]
    /\ listed = <<0, <<>>>>
    /\ claimAs = [p \in Procs |-> 1]
    /\ claimPc = [p \in Procs |-> "idle"]
    /\ claimSel = [p \in Procs |-> 0]
    /\ consumed = <<>>
    /\ valTask = NoContent
    /\ valResult = NoResult
    /\ min_workers = MinWorkers
    /\ max_workers = MaxWorkers
    /\ poolIdle = {}
    /\ apiReq = NoRequest
    /\ apiResp = NoResponse
    /\ apiCount = 0
    /\ launchAuth = [w \in Workers |-> NotLaunched]
    /\ exitStatus = [w \in Workers |-> NoExit]
    /\ createRet = [t \in Tasks |-> <<>>]
    /\ routeTask = NoHintTask
    /\ routeWorkers = <<>>
    /\ routeRules = <<>>
    /\ routeResult = NoCall
    /\ routeSwitched = NULL
    /\ routeAgain = NoCall
    /\ dlgPc = "idle"
    /\ dlgTask = NULL
    /\ dlgResp = NoDelegateResponse
    /\ queue_type = "local"
    /\ busLog = <<>>
    /\ busFiles = {}
    /\ busSubs = <<>>
    /\ redisInbox = <<>>
    /\ busDelivered = <<>>
    /\ busChecks = 0
    /\ exPrompt = <<"page">>
    /\ exParts = NoParts
    /\ exType = "none"
    /\ exFiles = <<>>

\* the dispatch loop, the run loops of the workers and what reaches them
\* from outside: cancellations, direct claims, remote heartbeats, kills and
\* shutdowns. Nothing in these processes calls Database.cleanup_dead_workers:
\* its only caller is the cleanupDeadWorkers mutation, composed with the
\* loops in SpecCleanup
Next ==
    \/ CreateTask(DefaultPriority)
    \/ \E t \in Tasks : CancelTask(t)
    \/ Tick
    \/ \E w \in Workers : StartWorker(w)
    \/ \E w \in Workers : CheckNotifications(w)
    \/ \E w \in Workers : IdleCheck(w)
    \/ \E w \in Workers : IdleHeartbeat(w)
    \/ \E w \in Workers : GetAssignedTask(w)
    \/ \E w \in Workers : GetNextTask(w)
    \/ \E w \in Workers : BeginProcessing(w)
    \/ \E w \in Workers : RemoteHeartbeat(w)
    \/ \E w \in Workers : RejectTask(w)
    \/ \E w \in Workers : \E success \in BOOLEAN : FinishTask(w, success)
    \/ \E w \in Workers : KillWorker(w)
    \/ \E w \in Workers : ShutdownWorker(w)
    \/ MonitorSelect
    \/ AssignNone
    \/ AssignTask
    \/ NotifyWorker
    \/ CheckWorkerHealth

Spec == Init /\ [][Next]_vars

\* what the schedulers guarantee: monitor_loop and the worker loops keep
\* running (while True ... sleep), time passes. Task creation,
\* cancellation, kills and restarts are up to the environment.
Fairness ==
    /\ WF_vars(MonitorSelect \/ AssignNone \/ AssignTask \/ NotifyWorker
                  \/ CheckWorkerHealth)
    /\ WF_vars(Tick)
    /\ \A w \in Workers :
          WF_vars(CheckNotifications(w) \/ IdleCheck(w) \/ IdleHeartbeat(w)
                    \/ GetAssignedTask(w)
                    \/ BeginProcessing(w) \/ FinishTask(w, TRUE))

FairSpec == Init /\ [][Next]_vars /\ Fairness

\* the dispatch loop and the run loops of the workers, no process being
\* killed or shut down from outside
NextLoop ==
    \/ CreateTask(DefaultPriority)
    \/ Tick
    \/ \E w \in Workers : StartWorker(w)
    \/ \E w \in Workers : CheckNotifications(w)
    \/ \E w \in Workers : IdleCheck(w)
    \/ \E w \in Workers : IdleHeartbeat(w)
    \/ \E w \in Workers : GetAssignedTask(w)
    \/ \E w \in Workers : BeginProcessing(w)
    \/ \E w \in Workers : RejectTask(w)
    \/ \E w \in Workers : \E success \in BOOLEAN : FinishTask(w, success)
    \/ \E w \in Workers : ProcessingError(w)
    \/ MonitorSelect
    \/ AssignNone
    \/ AssignTask
    \/ NotifyWorker
    \/ CheckWorkerHealth

SpecLoop == Init /\ [][NextLoop]_vars

\* the cleanupDeadWorkers mutation (graphql_server.py), which runs the two
\* statements of Database.cleanup_dead_workers in the server's process,
\* beside the dispatch loop and the run loops of the workers
NextCleanup ==
    \/ CreateTask(DefaultPriority)
    \/ Tick
    \/ \E w \in Workers : StartWorker(w)
    \/ \E w \in Workers : CheckNotifications(w)
    \/ \E w \in Workers : IdleCheck(w)
    \/ \E w \in Workers : IdleHeartbeat(w)
    \/ \E w \in Workers : GetAssignedTask(w)
    \/ \E w \in Workers : BeginProcessing(w)
    \/ \E w \in Workers : RejectTask(w)
    \/ \E w \in Workers : \E success \in BOOLEAN : FinishTask(w, success)
    \/ MonitorSelect
    \/ AssignNone
    \/ AssignTask
    \/ NotifyWorker
    \/ CheckWorkerHealth
    \/ CleanupResetTasks
    \/ CleanupDeleteWorkers

SpecCleanup == Init /\ [][NextCleanup]_vars

\* what the schedulers guarantee in the dispatch loop: monitor_loop keeps
\* iterating, time passes, and the run loop of every worker process that is
\* running goes on, through the executor's return as well. Task creation
\* and the start of workers are up to the environment
FairnessLoop ==
    /\ WF_vars(MonitorSelect \/ AssignNone \/ AssignTask \/ NotifyWorker
                  \/ CheckWorkerHealth)
    /\ WF_vars(Tick)
    /\ \A w \in Workers :
          WF_vars(CheckNotifications(w) \/ IdleCheck(w) \/ IdleHeartbeat(w)
                    \/ GetAssignedTask(w)
                    \/ BeginProcessing(w) \/ FinishTask(w, TRUE))

FairSpecLoop == Init /\ [][NextLoop]_vars /\ FairnessLoop

\* the dispatch loop and the workers, with notification INSERTs that can fail
NextDispatch ==
    \/ NextLoop
    \/ NotifyFails

SpecDispatch == Init /\ [][NextDispatch]_vars

\* MasterAPI's POST /task/delegate beside the dispatch loop and the workers
NextDelegate ==
    \/ \E sync \in BOOLEAN : DelegateNoPrompt(sync)
    \/ \E sync \in BOOLEAN : DelegateTask(sync)
    \/ \E outcome \in ExecOutcomes : DelegateExecuted(outcome)
    \/ \E w \in Workers : StartWorker(w)
    \/ \E w \in Workers : CheckNotifications(w)
    \/ \E w \in Workers : IdleCheck(w)
    \/ \E w \in Workers : IdleHeartbeat(w)
    \/ \E w \in Workers : GetAssignedTask(w)
    \/ \E w \in Workers : BeginProcessing(w)
    \/ \E w \in Workers : RejectTask(w)
    \/ \E w \in Workers : \E success \in BOOLEAN : FinishTask(w, success)
    \/ \E w \in Workers : ProcessingError(w)
    \/ MonitorSelect
    \/ AssignNone
    \/ AssignTask
    \/ NotifyWorker
    \/ CheckWorkerHealth

SpecDelegate == Init /\ [][NextDelegate]_vars

\* the MessageBus by itself, for either implementation
InitBus ==
    /\ task_master = <<>>
    /\ workers = <<>>
    /\ worker_notifications = <<>>
    /\ pc = [w \in Workers |-> "stopped"]
    /\ wtask = [w \in Workers |-> NULL]
    /\ mgrPc = "select"
    /\ mgrQueue = <<>>
    /\ mgrSel = <<NULL, NULL>>
    /\ tickOrphans = {}
    /\ cleanupPc = "idle"
    /\ cleanupReset = {}
    /\ cleanupTasks = {}
    /\ cleanupRet = NoReturn
    /\ terminal = [w \in Workers |-> 0]
    /\ events = 0
    /\ acquired = [w \in Workers |-> NoCall]
    /\ poolPc = "start"
    /\ poolPending = 0
    /\ poolActive = 0
    /\ poolSpawn = 0
    /\ poolWorkers = <<>>
    /\ claimed = [w \in Workers |-> <<>>]
    /\ listed = <<0, <<>>>>
    /\ claimAs = [p \in Procs |-> 1]
    /\ claimPc = [p \in Procs |-> "idle"]
    /\ claimSel = [p \in Procs |-> 0]
    /\ consumed = <<>>
    /\ valTask = NoContent
    /\ valResult = NoResult
    /\ min_workers = MinWorkers
    /\ max_workers = MaxWorkers
    /\ poolIdle = {}
    /\ apiReq = NoRequest
    /\ apiResp = NoResponse
    /\ apiCount = 0
    /\ launchAuth = [w \in Workers |-> NotLaunched]
    /\ exitStatus = [w \in Workers |-> NoExit]
    /\ createRet = [t \in Tasks |-> <<>>]
    /\ routeTask = NoHintTask
    /\ routeWorkers = <<>>
    /\ routeRules = <<>>
    /\ routeResult = NoCall
    /\ routeSwitched = NULL
    /\ routeAgain = NoCall
    /\ dlgPc = "idle"
    /\ dlgTask = NULL
    /\ dlgResp = NoDelegateResponse
    /\ queue_type \in QueueTypes
    /\ busLog = <<>>
    /\ busFiles = {}
    /\ busSubs = <<>>
    /\ redisInbox = <<>>
    /\ busDelivered = <<>>
    /\ busChecks = 0
    /\ exPrompt = <<"page">>
    /\ exParts = NoParts
    /\ exType = "none"
    /\ exFiles = <<>>

NextBus ==
    \/ \E channel \in Channels : \E callback \in Handlers :
          BusSubscribe(channel, callback)
    \/ \E channel \in Channels : BusPublish(channel)
    \/ LocalCheck
    \/ \E thread \in 1..MaxSubscriptions : RedisDeliver(thread)

SpecBus == InitBus /\ [][NextBus]_vars

\* the extractor on every prompt and every two-section output of the bounds
InitExtract ==
    /\ task_master = <<>>
    /\ workers = <<>>
    /\ worker_notifications = <<>>
    /\ pc = [w \in Workers |-> "stopped"]
    /\ wtask = [w \in Workers |-> NULL]
    /\ mgrPc = "select"
    /\ mgrQueue = <<>>
    /\ mgrSel = <<NULL, NULL>>
    /\ tickOrphans = {}
    /\ cleanupPc = "idle"
    /\ cleanupReset = {}
    /\ cleanupTasks = {}
    /\ cleanupRet = NoReturn
    /\ terminal = [w \in Workers |-> 0]
    /\ events = 0
    /\ acquired = [w \in Workers |-> NoCall]
    /\ poolPc = "start"
    /\ poolPending = 0
    /\ poolActive = 0
    /\ poolSpawn = 0
    /\ poolWorkers = <<>>
    /\ claimed = [w \in Workers |-> <<>>]
    /\ listed = <<0, <<>>>>
    /\ claimAs = [p \in Procs |-> 1]
    /\ claimPc = [p \in Procs |-> "idle"]
    /\ claimSel = [p \in Procs |-> 0]
    /\ consumed = <<>>
    /\ valTask = NoContent
    /\ valResult = NoResult
    /\ min_workers = MinWorkers
    /\ max_workers = MaxWorkers
    /\ poolIdle = {}
    /\ apiReq = NoRequest
    /\ apiResp = NoResponse
    /\ apiCount = 0
    /\ launchAuth = [w \in Workers |-> NotLaunched]
    /\ exitStatus = [w \in Workers |-> NoExit]
    /\ createRet = [t \in Tasks |-> <<>>]
    /\ routeTask = NoHintTask
    /\ routeWorkers = <<>>
    /\ routeRules = <<>>
    /\ routeResult = NoCall
    /\ routeSwitched = NULL
    /\ routeAgain = NoCall
    /\ dlgPc = "idle"
    /\ dlgTask = NULL
    /\ dlgResp = NoDelegateResponse
    /\ queue_type = "local"
    /\ busLog = <<>>
    /\ busFiles = {}
    /\ busSubs = <<>>
    /\ redisInbox = <<>>
    /\ busDelivered = <<>>
    /\ busChecks = 0
    /\ exPrompt \in Prompts
    /\ exParts \in [prefix : {<<>>, <<"w", "nl">>},
                    a : [body : Bodies, wrap : Wraps],
                    b : [body : Bodies, wrap : Wraps]]
    /\ exType = "none"
    /\ exFiles = <<>>

NextExtract == SaveTaskDeliverable

SpecExtract == InitExtract /\ [][NextExtract]_vars

\* the basic pool manager with the workers it spawns
NextPool ==
    \/ CreateTask(DefaultPriority)
    \/ Tick
    \/ PoolStart
    \/ PoolReadPending
    \/ PoolReadActive
    \/ PoolDecide
    \/ PoolSpawn
    \/ PoolShutdown
    \/ PoolCleanup
    \/ \E w \in Workers : IdleCheck(w)
    \/ \E w \in Workers : IdleHeartbeat(w)
    \/ \E w \in Workers : GetNextTask(w)
    \/ \E w \in Workers : BeginProcessing(w)
    \/ \E w \in Workers : \E success \in BOOLEAN : FinishTask(w, success)
    \/ \E w \in Workers : KillWorker(w)

SpecPool == Init /\ [][NextPool]_vars

\* ------------------------------------------ the pool and its control socket

NextControl ==
    \/ CreateTask(DefaultPriority)
    \/ Tick
    \/ PoolStart
    \/ PoolReadPending
    \/ PoolReadActive
    \/ PoolDecide
    \/ PoolSpawn
    \/ PoolShutdown
    \/ PoolCleanup
    \/ \E w \in Workers : IdleCheck(w)
    \/ \E w \in Workers : IdleHeartbeat(w)
    \/ \E token \in Tokens : \E worker_id \in Workers \cup {NULL} :
           ControlSpawnWorker(token, worker_id)
    \/ \E token \in Tokens : \E worker_id \in Workers :
           ControlShutdownWorker(token, worker_id)
    \/ \E token \in Tokens : \E minw, maxw \in ScaleArgs :
           ControlScale(token, minw, maxw)
    \/ \E token \in Tokens : ControlForceScale(token)
    \/ \E token \in Tokens : ControlShutdownAll(token)
    \/ \E token \in Tokens : \E worker_id \in Workers :
           ControlRestartWorker(token, worker_id)
    \/ \E token \in Tokens : ControlUnknown(token)

SpecControl == Init /\ [][NextControl]_vars

\* ------------------------------------------------ starting a worker process

NextLaunch ==
    \/ CreateTask(DefaultPriority)
    \/ Tick
    \/ \E w \in Workers : \E auth_token \in AuthTokens : LaunchWorker(w, auth_token)
    \/ \E w \in Workers : IdleCheck(w)
    \/ \E w \in Workers : IdleHeartbeat(w)
    \/ \E w \in Workers : GetNextTask(w)
    \/ \E w \in Workers : BeginProcessing(w)
    \/ \E w \in Workers : \E success \in BOOLEAN : FinishTask(w, success)
    \/ \E w \in Workers : KillWorker(w)

SpecLaunch == Init /\ [][NextLaunch]_vars

\* ------------------------------------------------- create_task by task_id

NextCreate ==
    \/ \E task_id \in Tasks : \E p \in Priorities : CreateTaskWithId(task_id, p)
    \/ \E t \in Tasks : CancelTask(t)
    \/ \E w \in Workers : StartWorker(w)
    \/ \E w \in Workers : GetNextTask(w)
    \/ \E w \in Workers : BeginProcessing(w)
    \/ \E w \in Workers : \E success \in BOOLEAN : FinishTask(w, success)

SpecCreate == Init /\ [][NextCreate]_vars

\* ------------------------------------- the pool with workers that pull tasks

NextScale ==
    \/ CreateTask(DefaultPriority)
    \/ Tick
    \/ PoolStart
    \/ PoolReadPending
    \/ PoolReadActive
    \/ PoolDecide
    \/ PoolSpawn
    \/ PoolShutdown
    \/ PoolCleanup
    \/ \E w \in Workers : SimpleGetNextTask(w)
    \/ \E w \in Workers : SimpleBusy(w)
    \/ \E w \in Workers : SimpleFinish(w)
    \/ \E w \in Workers : SimpleIdle(w)
    \/ \E w \in Workers : IdleHeartbeat(w)
    \/ \E w \in Workers : KillWorker(w)

SpecScale == Init /\ [][NextScale]_vars

\* ------------------------------------------------------ route_task calls

\* a task, a list of available workers and a rule list, before the call
InitRouter ==
    /\ task_master = <<>>
    /\ workers = <<>>
    /\ worker_notifications = <<>>
    /\ pc = [w \in Workers |-> "stopped"]
    /\ wtask = [w \in Workers |-> NULL]
    /\ mgrPc = "select"
    /\ mgrQueue = <<>>
    /\ mgrSel = <<NULL, NULL>>
    /\ tickOrphans = {}
    /\ cleanupPc = "idle"
    /\ cleanupReset = {}
    /\ cleanupTasks = {}
    /\ cleanupRet = NoReturn
    /\ terminal = [w \in Workers |-> 0]
    /\ events = 0
    /\ acquired = [w \in Workers |-> NoCall]
    /\ poolPc = "start"
    /\ poolPending = 0
    /\ poolActive = 0
    /\ poolSpawn = 0
    /\ poolWorkers = <<>>
    /\ claimed = [w \in Workers |-> <<>>]
    /\ listed = <<0, <<>>>>
    /\ claimAs = [p \in Procs |-> 1]
    /\ claimPc = [p \in Procs |-> "idle"]
    /\ claimSel = [p \in Procs |-> 0]
    /\ consumed = <<>>
    /\ valTask = NoContent
    /\ valResult = NoResult
    /\ min_workers = MinWorkers
    /\ max_workers = MaxWorkers
    /\ poolIdle = {}
    /\ apiReq = NoRequest
    /\ apiResp = NoResponse
    /\ apiCount = 0
    /\ launchAuth = [w \in Workers |-> NotLaunched]
    /\ exitStatus = [w \in Workers |-> NoExit]
    /\ createRet = [t \in Tasks |-> <<>>]
    /\ routeTask \in TaskDicts
    /\ routeWorkers \in WorkerLists
    /\ routeRules \in RoutingRules
    /\ routeResult = NoCall
    /\ routeSwitched = NULL
    /\ routeAgain = NoCall
    /\ dlgPc = "idle"
    /\ dlgTask = NULL
    /\ dlgResp = NoDelegateResponse
    /\ queue_type = "local"
    /\ busLog = <<>>
    /\ busFiles = {}
    /\ busSubs = <<>>
    /\ redisInbox = <<>>
    /\ busDelivered = <<>>
    /\ busChecks = 0
    /\ exPrompt = <<"page">>
    /\ exParts = NoParts
    /\ exType = "none"
    /\ exFiles = <<>>

NextRouter ==
    \/ Route
    \/ RouteAgain
    \/ \E i \in 1..MaxRouted : RouteSwitched(i)

SpecRouter == InitRouter /\ [][NextRouter]_vars

\* ------------------------------------------- concurrent acquire_next_task

\* a store holding up to NumTasks tasks, each pending or cancelled before it
\* was ever assigned, and any set of registered workers; nothing is running
InitAcquire ==
    /\ \E k \in 0..NumTasks :
           task_master \in [1..k -> {[NewTask(p) EXCEPT !.status = st] :
                                       p \in Priorities,
                                       st \in {"pending", "cancelled"}}]
    /\ \E R \in SUBSET Workers : workers = [w \in R |-> NewWorker]
    /\ worker_notifications = <<>>
    /\ pc = [w \in Workers |-> "stopped"]
    /\ wtask = [w \in Workers |-> NULL]
    /\ mgrPc = "select"
    /\ mgrQueue = <<>>
    /\ mgrSel = <<NULL, NULL>>
    /\ tickOrphans = {}
    /\ cleanupPc = "idle"
    /\ cleanupReset = {}
    /\ cleanupTasks = {}
    /\ cleanupRet = NoReturn
    /\ terminal = [w \in Workers |-> 0]
    /\ events = 0
    /\ acquired = [w \in Workers |-> NoCall]
    /\ poolPc = "start"
    /\ poolPending = 0
    /\ poolActive = 0
    /\ poolSpawn = 0
    /\ poolWorkers = <<>>
    /\ claimed = [w \in Workers |-> <<>>]
    /\ listed = <<0, <<>>>>
    /\ claimAs = [p \in Procs |-> 1]
    /\ claimPc = [p \in Procs |-> "idle"]
    /\ claimSel = [p \in Procs |-> 0]
    /\ consumed = <<>>
    /\ valTask = NoContent
    /\ valResult = NoResult
    /\ min_workers = MinWorkers
    /\ max_workers = MaxWorkers
    /\ poolIdle = {}
    /\ apiReq = NoRequest
    /\ apiResp = NoResponse
    /\ apiCount = 0
    /\ launchAuth = [w \in Workers |-> NotLaunched]
    /\ exitStatus = [w \in Workers |-> NoExit]
    /\ createRet = [t \in Tasks |-> <<>>]
    /\ routeTask = NoHintTask
    /\ routeWorkers = <<>>
    /\ routeRules = <<>>
    /\ routeResult = NoCall
    /\ routeSwitched = NULL
    /\ routeAgain = NoCall
    /\ dlgPc = "idle"
    /\ dlgTask = NULL
    /\ dlgResp = NoDelegateResponse
    /\ queue_type = "local"
    /\ busLog = <<>>
    /\ busFiles = {}
    /\ busSubs = <<>>
    /\ redisInbox = <<>>
    /\ busDelivered = <<>>
    /\ busChecks = 0
    /\ exPrompt = <<"page">>
    /\ exParts = NoParts
    /\ exType = "none"
    /\ exFiles = <<>>

\* one caller's acquire_next_task: the transaction runs under the write
\* lock of BEGIN IMMEDIATE, so concurrent calls take effect one at a time
AcquireCall(w) ==
    /\ acquired[w] = NoCall
    /\ acquire_next_task(w)
    /\ acquired' = [acquired EXCEPT ![w] = acquire_result(task_master, w)]
    /\ UNCHANGED <<worker_notifications, workerVars, mgrVars, cleanupVars,
                   cleanupRet, terminal, events, poolVars, orderVars, claimVars,
                   valVars, scaleVars, apiVars, launchVars, createVars,
                   routerVars, delegateVars, busVars, extractVars>>

NextAcquire == \E w \in Workers : AcquireCall(w)

SpecAcquire == InitAcquire /\ [][NextAcquire]_vars

\* ------------------------------------------------ the order of selection
\* a store of up to MaxListed inserted tasks, some of them cancelled
\* since, and the registered workers
InitOrder ==
    /\ \E k \in 0..MaxListed :
           task_master \in [1..k -> {[NewTask(p) EXCEPT !.status = st] :
                                       p \in Priorities,
                                       st \in {"pending", "cancelled"}}]
    /\ workers = [w \in Workers |-> NewWorker]
    /\ worker_notifications = <<>>
    /\ pc = [w \in Workers |-> "stopped"]
    /\ wtask = [w \in Workers |-> NULL]
    /\ mgrPc = "select"
    /\ mgrQueue = <<>>
    /\ mgrSel = <<NULL, NULL>>
    /\ tickOrphans = {}
    /\ cleanupPc = "idle"
    /\ cleanupReset = {}
    /\ cleanupTasks = {}
    /\ cleanupRet = NoReturn
    /\ terminal = [w \in Workers |-> 0]
    /\ events = 0
    /\ acquired = [w \in Workers |-> NoCall]
    /\ poolPc = "start"
    /\ poolPending = 0
    /\ poolActive = 0
    /\ poolSpawn = 0
    /\ poolWorkers = <<>>
    /\ claimed = [w \in Workers |-> <<>>]
    /\ listed = <<0, <<>>>>
    /\ claimAs = [p \in Procs |-> 1]
    /\ claimPc = [p \in Procs |-> "idle"]
    /\ claimSel = [p \in Procs |-> 0]
    /\ consumed = <<>>
    /\ valTask = NoContent
    /\ valResult = NoResult
    /\ min_workers = MinWorkers
    /\ max_workers = MaxWorkers
    /\ poolIdle = {}
    /\ apiReq = NoRequest
    /\ apiResp = NoResponse
    /\ apiCount = 0
    /\ launchAuth = [w \in Workers |-> NotLaunched]
    /\ exitStatus = [w \in Workers |-> NoExit]
    /\ createRet = [t \in Tasks |-> <<>>]
    /\ routeTask = NoHintTask
    /\ routeWorkers = <<>>
    /\ routeRules = <<>>
    /\ routeResult = NoCall
    /\ routeSwitched = NULL
    /\ routeAgain = NoCall
    /\ dlgPc = "idle"
    /\ dlgTask = NULL
    /\ dlgResp = NoDelegateResponse
    /\ queue_type = "local"
    /\ busLog = <<>>
    /\ busFiles = {}
    /\ busSubs = <<>>
    /\ redisInbox = <<>>
    /\ busDelivered = <<>>
    /\ busChecks = 0
    /\ exPrompt = <<"page">>
    /\ exParts = NoParts
    /\ exType = "none"
    /\ exFiles = <<>>

\* db.get_pending_tasks(limit)
ListPending(limit) ==
    /\ listed' = <<limit, get_pending_tasks(task_master, limit)>>
    /\ UNCHANGED <<storeVars, workerVars, mgrVars, cleanupVars, cleanupRet,
                   terminal, events, acquired, poolVars, claimed, claimVars,
                   valVars, scaleVars, apiVars, launchVars, createVars,
                   routerVars, delegateVars, busVars, extractVars>>

\* one more acquire_next_task call of worker w that returns a task
ClaimNext(w) ==
    /\ acquire_result(task_master, w) # NULL
    /\ acquire_next_task(w)
    /\ claimed' = [claimed EXCEPT ![w] = Append(@, acquire_result(task_master, w))]
    /\ UNCHANGED <<worker_notifications, workerVars, mgrVars, cleanupVars,
                   cleanupRet, terminal, events, acquired, poolVars, listed, claimVars,
                   valVars, scaleVars, apiVars, launchVars, createVars,
                   routerVars, delegateVars, busVars, extractVars>>

NextOrder ==
    \/ \E limit \in 1..MaxListed : ListPending(limit)
    \/ \E w \in Workers : ClaimNext(w)

SpecOrder == InitOrder /\ [][NextOrder]_vars

\* --------------------------------------- check_for_task_notifications

\* SELECT task_id FROM worker_notifications WHERE worker_id = ? AND
\* processed = 0 ORDER BY created_at ASC LIMIT 1: the row found, 0 if none
oldest_unprocessed(wn, w) ==
    LET U == {i \in 1..Len(wn) : wn[i].worker_id = w /\ wn[i].processed = 0}
    IN  IF U = {} THEN 0 ELSE CHOOSE k \in U : \A j \in U : k <= j

\* UPDATE worker_notifications SET processed = 1
\* WHERE worker_id = ? AND task_id = ?
mark_processed(wn, w, t) ==
    [k \in 1..Len(wn) |->
        IF wn[k].worker_id = w /\ wn[k].task_id = t
        THEN [wn[k] EXCEPT !.processed = 1]
        ELSE wn[k]]

\* the store holds no notification yet; every process runs under the
\* WORKER_ID of its environment, which nothing keeps unique
InitNotify ==
    /\ task_master = <<>>
    /\ workers = [w \in Workers |-> NewWorker]
    /\ worker_notifications = <<>>
    /\ pc = [w \in Workers |-> "stopped"]
    /\ wtask = [w \in Workers |-> NULL]
    /\ mgrPc = "select"
    /\ mgrQueue = <<>>
    /\ mgrSel = <<NULL, NULL>>
    /\ tickOrphans = {}
    /\ cleanupPc = "idle"
    /\ cleanupReset = {}
    /\ cleanupTasks = {}
    /\ cleanupRet = NoReturn
    /\ terminal = [w \in Workers |-> 0]
    /\ events = 0
    /\ acquired = [w \in Workers |-> NoCall]
    /\ poolPc = "start"
    /\ poolPending = 0
    /\ poolActive = 0
    /\ poolSpawn = 0
    /\ poolWorkers = <<>>
    /\ claimed = [w \in Workers |-> <<>>]
    /\ listed = <<0, <<>>>>
    /\ claimAs \in [Procs -> Workers]
    /\ claimPc = [p \in Procs |-> "idle"]
    /\ claimSel = [p \in Procs |-> 0]
    /\ consumed = <<>>
    /\ valTask = NoContent
    /\ valResult = NoResult
    /\ min_workers = MinWorkers
    /\ max_workers = MaxWorkers
    /\ poolIdle = {}
    /\ apiReq = NoRequest
    /\ apiResp = NoResponse
    /\ apiCount = 0
    /\ launchAuth = [w \in Workers |-> NotLaunched]
    /\ exitStatus = [w \in Workers |-> NoExit]
    /\ createRet = [t \in Tasks |-> <<>>]
    /\ routeTask = NoHintTask
    /\ routeWorkers = <<>>
    /\ routeRules = <<>>
    /\ routeResult = NoCall
    /\ routeSwitched = NULL
    /\ routeAgain = NoCall
    /\ dlgPc = "idle"
    /\ dlgTask = NULL
    /\ dlgResp = NoDelegateResponse
    /\ queue_type = "local"
    /\ busLog = <<>>
    /\ busFiles = {}
    /\ busSubs = <<>>
    /\ redisInbox = <<>>
    /\ busDelivered = <<>>
    /\ busChecks = 0
    /\ exPrompt = <<"page">>
    /\ exParts = NoParts
    /\ exType = "none"
    /\ exFiles = <<>>

\* notify_worker_task_assignment: INSERT INTO worker_notifications
NotifyInsert(w, t) ==
    /\ Len(worker_notifications) < MaxNotifications
    /\ worker_notifications' = Append(worker_notifications,
           [worker_id |-> w, task_id |-> t, processed |-> 0])
    /\ consumed' = Append(consumed, {})
    /\ UNCHANGED <<task_master, workers, workerVars, mgrVars, cleanupVars,
                   cleanupRet, terminal, events, acquired, poolVars, orderVars,
                   claimAs, claimPc, claimSel, valVars, scaleVars, apiVars,
                   launchVars, createVars, routerVars, delegateVars, busVars,
                   extractVars>>

\* check_for_task_notifications, first statement: a row is found
ClaimSelect(p) ==
    /\ claimPc[p] = "idle"
    /\ oldest_unprocessed(worker_notifications, claimAs[p]) # 0
    /\ claimSel' = [claimSel EXCEPT ![p] =
                       oldest_unprocessed(worker_notifications, claimAs[p])]
    /\ claimPc' = [claimPc EXCEPT ![p] = "selected"]
    /\ UNCHANGED <<storeVars, workerVars, mgrVars, cleanupVars, cleanupRet,
                   terminal, events, acquired, poolVars, orderVars, claimAs,
                   consumed, valVars, scaleVars, apiVars, launchVars,
                   createVars, routerVars, delegateVars, busVars,
                   extractVars>>

\* check_for_task_notifications, second statement and return: the rows of
\* this worker and task are marked, the task id of the row is returned
ClaimUpdate(p) ==
    /\ claimPc[p] = "selected"
    /\ worker_notifications' =
          mark_processed(worker_notifications, claimAs[p],
                         worker_notifications[claimSel[p]].task_id)
    /\ consumed' = [consumed EXCEPT ![claimSel[p]] = @ \cup {p}]
    /\ claimSel' = [claimSel EXCEPT ![p] = 0]
    /\ claimPc' = [claimPc EXCEPT ![p] = "idle"]
    /\ UNCHANGED <<task_master, workers, workerVars, mgrVars, cleanupVars,
                   cleanupRet, terminal, events, acquired, poolVars, orderVars,
                   claimAs, valVars, scaleVars, apiVars, launchVars,
                   createVars, routerVars, delegateVars, busVars,
                   extractVars>>

NextNotify ==
    \/ \E w \in Workers : \E t \in Tasks : NotifyInsert(w, t)
    \/ \E p \in Procs : ClaimSelect(p)
    \/ \E p \in Procs : ClaimUpdate(p)

SpecNotify == InitNotify /\ [][NextNotify]_vars

\* ------------------------------------------------- validation of a task

\* absolute, normalised paths as os.path.abspath returns them: a separator
\* followed by names, no separator doubled or at the end
PathChars == {"/", "a", "b"}

Normalised(p) ==
    /\ p[1] = "/"
    /\ p[Len(p)] # "/"
    /\ \A i \in 1..(Len(p) - 1) : ~(p[i] = "/" /\ p[i + 1] = "/")

PathStrings ==
    {p \in UNION {[1..n -> PathChars] : n \in 2..(MaxPathLen + 1)} : Normalised(p)}

\* paths.allowed_dirs: one allowed directory, /a
AllowedDirs == {<<"/", "a">>}

\* security.file_operations.allowed_extensions, and what a task may name
AllowedExts == {".py"}
Extensions == {".py", ".PY", ".exe"}

\* str.lower on an extension
Lower(ext) == IF ext = ".PY" THEN ".py" ELSE ext

\* a path of a task: its string, the extension os.path.splitext finds in
\* it, and whether a file larger than max_file_size exists there
FilePaths == [chars : PathStrings, ext : Extensions, too_large : BOOLEAN]

\* str.startswith
startswith(s, prefix) ==
    Len(s) >= Len(prefix) /\ SubSeq(s, 1, Len(prefix)) = prefix

\* Config.is_path_allowed
is_path_allowed(path) ==
    \E allowed_dir \in AllowedDirs : startswith(path.chars, allowed_dir)

\* Config.is_extension_allowed
is_extension_allowed(path) == Lower(path.ext) \in AllowedExts

\* Config.validate_file_operation
validate_file_operation(path) ==
    /\ is_path_allowed(path)
    /\ is_extension_allowed(path)
    /\ ~path.too_large

\* process_task up to the executor: every entry of files, then
\* output_file if there is one, then the prompt
task_is_valid(content) ==
    /\ \A i \in 1..Len(content.files) : validate_file_operation(content.files[i])
    /\ \A i \in 1..Len(content.output_file) :
           validate_file_operation(content.output_file[i])
    /\ ~content.prompt_empty

\* a worker has fetched a task with some content
InitValidate ==
    /\ task_master = <<>>
    /\ workers = <<>>
    /\ worker_notifications = <<>>
    /\ pc = [w \in Workers |-> "stopped"]
    /\ wtask = [w \in Workers |-> NULL]
    /\ mgrPc = "select"
    /\ mgrQueue = <<>>
    /\ mgrSel = <<NULL, NULL>>
    /\ tickOrphans = {}
    /\ cleanupPc = "idle"
    /\ cleanupReset = {}
    /\ cleanupTasks = {}
    /\ cleanupRet = NoReturn
    /\ terminal = [w \in Workers |-> 0]
    /\ events = 0
    /\ acquired = [w \in Workers |-> NoCall]
    /\ poolPc = "start"
    /\ poolPending = 0
    /\ poolActive = 0
    /\ poolSpawn = 0
    /\ poolWorkers = <<>>
    /\ claimed = [w \in Workers |-> <<>>]
    /\ listed = <<0, <<>>>>
    /\ claimAs = [p \in Procs |-> 1]
    /\ claimPc = [p \in Procs |-> "idle"]
    /\ claimSel = [p \in Procs |-> 0]
    /\ consumed = <<>>
    /\ valTask \in [prompt_empty : BOOLEAN,
                    files : {<<>>} \cup {<<f>> : f \in FilePaths},
                    output_file : {<<>>} \cup {<<f>> : f \in FilePaths}]
    /\ valResult = NoResult
    /\ min_workers = MinWorkers
    /\ max_workers = MaxWorkers
    /\ poolIdle = {}
    /\ apiReq = NoRequest
    /\ apiResp = NoResponse
    /\ apiCount = 0
    /\ launchAuth = [w \in Workers |-> NotLaunched]
    /\ exitStatus = [w \in Workers |-> NoExit]
    /\ createRet = [t \in Tasks |-> <<>>]
    /\ routeTask = NoHintTask
    /\ routeWorkers = <<>>
    /\ routeRules = <<>>
    /\ routeResult = NoCall
    /\ routeSwitched = NULL
    /\ routeAgain = NoCall
    /\ dlgPc = "idle"
    /\ dlgTask = NULL
    /\ dlgResp = NoDelegateResponse
    /\ queue_type = "local"
    /\ busLog = <<>>
    /\ busFiles = {}
    /\ busSubs = <<>>
    /\ redisInbox = <<>>
    /\ busDelivered = <<>>
    /\ busChecks = 0
    /\ exPrompt = <<"page">>
    /\ exParts = NoParts
    /\ exType = "none"
    /\ exFiles = <<>>

\* run: process_task(task), then update_task_result(task_id, result):
\* an invalid task is returned with success False before the executor is
\* called, a valid one with what the executor made of it; the result is
\* recorded by complete_task_with_stats
ProcessTask(executor_success) ==
    /\ ~valResult.returned
    /\ LET valid == task_is_valid(valTask)
           success == valid /\ executor_success
       IN  valResult' = [returned |-> TRUE,
                         executor |-> valid,
                         success |-> success,
                         status |-> IF success THEN "completed" ELSE "failed"]
    /\ UNCHANGED <<storeVars, workerVars, mgrVars, cleanupVars, cleanupRet,
                   terminal, events, acquired, poolVars, orderVars, claimVars,
                   valTask, scaleVars, apiVars, launchVars, createVars,
                   routerVars, delegateVars, busVars, extractVars>>

NextValidate == \E executor_success \in BOOLEAN : ProcessTask(executor_success)

SpecValidate == InitValidate /\ [][NextValidate]_vars

\* ----------------------------------------------------------- properties

\* the workers that have called acquire_next_task, and those that got a task
Callers == {w \in Workers : acquired[w] # NoCall}
Winners == {w \in Callers : acquired[w] # NULL}

\* under SpecAcquire a task is never completed or cancelled after Init, so
\* the tasks that were pending at the start are those not cancelled
InitiallyPending == {t \in DOMAIN task_master : task_master[t].status # "cancelled"}

C2_NoOverwrite ==
    [][\A t \in DOMAIN task_master :
          (/\ task_master[t].status = "in_progress"
           /\ task_master'[t].status = "in_progress")
          => task_master'[t].assigned_to = task_master[t].assigned_to]_vars

\* the step in which worker w calls complete_task_with_stats for wtask[w]
CompletionStep(w) == pc[w] \in {"fetched", "processing"} /\ pc'[w] = "polling"

Counters(ws) == [w \in DOMAIN ws |-> <<ws[w].tasks_completed, ws[w].tasks_failed>>]

\* C3: complete_task_with_stats(t, w, ...) succeeds iff immediately before
\* the call t has assigned_to = w and status = in_progress; in every other
\* case it is a no-op: the task rows are unchanged and no worker counter is
\* incremented.
C3_CompleteIffOwned ==
    [][\A w \in Workers :
          CompletionStep(w) =>
             IF assigned_to_me(task_master, wtask[w], w)
             THEN task_master'[wtask[w]].status \in {"completed", "failed"}
             ELSE /\ task_master' = task_master
                  /\ Counters(workers') = Counters(workers)]_vars

\* C4: every in_progress task whose assigned worker is offline is moved
\* back to pending with assigned_to null within one scheduling tick of the
\* pool manager: a task that was orphaned when an iteration of monitor_loop
\* began is no longer orphaned when that iteration ends.
C4_OrphanRecoveredInTick ==
    [][(mgrPc = "health" /\ mgrPc' = "select")
          => \A t \in tickOrphans : ~Orphaned(task_master', workers', t)]_vars

\* worker w has crashed while task t is in_progress and assigned to it, and
\* its heartbeat is older than TDead
StaleHolder(t, w) ==
    /\ t \in DOMAIN task_master
    /\ task_master[t].status = "in_progress"
    /\ task_master[t].assigned_to = w
    /\ pc[w] = "stopped"
    /\ w \in DOMAIN workers
    /\ workers[w].age > TDead

\* C5: if a worker holding an in_progress task stops refreshing its
\* heartbeat, then once the heartbeat is older than TDead the task is
\* eventually taken from it (returned to pending, from where it is
\* dispatched again).
C5_StaleTaskReclaimed ==
    \A t \in Tasks : \A w \in Workers :
        StaleHolder(t, w) ~>
            ~(/\ t \in DOMAIN task_master
              /\ task_master[t].status = "in_progress"
              /\ task_master[t].assigned_to = w)

\* C6: cleanup_dead_workers is atomic as a whole: once its first statement
\* has reset the tasks of the dead workers, nothing else takes effect before
\* its second statement, and the rows that statement removes are those of
\* the workers whose tasks were reset.
C6_CleanupAtomic ==
    [][cleanupPc = "deleting"
          => /\ cleanupPc' = "idle"
             /\ (DOMAIN workers) \ (DOMAIN workers') = cleanupReset]_vars

\* C7: when cleanup_dead_workers returns, every task that was in_progress
\* and assigned to a worker with a heartbeat older than TDead is pending
\* with assigned_to null, every such worker's row is gone, and the value
\* returned is the number of rows removed.
C7_CleanupPostcondition ==
    [][(cleanupPc = "deleting" /\ cleanupPc' = "idle")
          => /\ \A t \in cleanupTasks :
                    /\ task_master'[t].status = "pending"
                    /\ task_master'[t].assigned_to = NULL
             /\ \A w \in cleanupReset : w \notin DOMAIN workers'
             /\ cleanupRet' = Cardinality((DOMAIN workers) \ (DOMAIN workers'))]_vars

\* C8: orphan recovery is idempotent: in the state a call of
\* cleanup_dead_workers has just returned in, a second call with nothing in
\* between (no other operation, no time passing) resets no task, removes no
\* row and returns 0, leaving tasks and workers as the first call left them.
C8_CleanupIdempotent ==
    cleanupRet # NoReturn
        => /\ cleanup_reset_tasks(task_master, workers) = task_master
           /\ cleanup_delete_workers(workers) = workers
           /\ Cardinality(DeadWorkers(workers)) = 0

\* a call has just returned after removing a worker, and a task that had
\* been dispatched is pending again
C8_Witness ==
    /\ cleanupRet >= 1
    /\ \E i \in 1..Len(worker_notifications) :
          /\ task_master[worker_notifications[i].task_id].status = "pending"
          /\ task_master[worker_notifications[i].task_id].assigned_to = NULL

\* C9: for every worker, tasks_completed + tasks_failed equals the number
\* of terminal transitions (a task moved to completed or failed) that the
\* worker has performed.
C9_CountersMatchTerminal ==
    \A w \in DOMAIN workers :
        workers[w].tasks_completed + workers[w].tasks_failed = terminal[w]

\* worker w has fetched a task as its own assignment and is executing it
Executing(w) == pc[w] \in {"fetched", "processing"}

\* C10: no two workers observe the same task in in_progress at once: at
\* most one worker has fetched a given task as its own assignment and is
\* executing it.
C10_SingleExecutor ==
    \A w1, w2 \in Workers :
        (Executing(w1) /\ Executing(w2) /\ wtask[w1] = wtask[w2]) => w1 = w2

\* C11: at most one task per worker: there are never two distinct
\* in_progress tasks with the same assigned_to worker.
C11_OneTaskPerWorker ==
    \A t1, t2 \in DOMAIN task_master :
        (/\ task_master[t1].status = "in_progress"
         /\ task_master[t2].status = "in_progress"
         /\ task_master[t1].assigned_to = task_master[t2].assigned_to)
        => t1 = t2

TerminalStatus == {"completed", "failed", "cancelled"}

C13_ActiveTasksCapped ==
    Cardinality(ActiveTasks(task_master)) <= MaxActiveTasks

\* C14: no scheduling tick spawns a worker when the number of active tasks
\* it counted at that tick is greater than or equal to max_active_tasks:
\* every spawn_worker call of a tick is made with a count below the limit
C14_NoSpawnWhenQueueFull ==
    [][(poolPc = "spawn" /\ poolWorkers' # poolWorkers)
          => poolActive < MaxActiveTasks]_vars

\* a tick that counted a full queue, with tasks pending and no active
\* worker, has decided and spawns nothing
C14_Witness ==
    /\ poolPc = "cleanup"
    /\ poolSpawn = 0
    /\ poolActive >= MaxActiveTasks
    /\ poolPending > 0
    /\ get_active_workers(workers) = {}
    /\ FreshIds # {}

\* task a is selected before task b: higher priority first, and among
\* equal priorities the one inserted first
SelectedBefore(tm, a, b) ==
    \/ tm[a].priority > tm[b].priority
    \/ tm[a].priority = tm[b].priority /\ a < b

C16_FetchedTaskCompleted ==
    [][\A w \in Workers :
          (pc[w] \in {"fetched", "processing"} /\ pc'[w] \notin {"fetched", "processing"})
              => CompletionStep(w)]_vars

\* C17: a worker executes the task named in a notification only if, when it
\* fetches the task, the task is in_progress with assigned_to equal to that
\* worker; a notification naming a task that is pending, terminal or
\* assigned to another worker leads back to polling, not to an execution.
C17_ExecuteOnlyOwnTask ==
    [][\A w \in Workers :
          pc[w] = "notified" =>
              /\ pc'[w] \in {"fetched", "processing"} =>
                    /\ wtask[w] \in DOMAIN task_master
                    /\ task_master[wtask[w]].status = "in_progress"
                    /\ task_master[wtask[w]].assigned_to = w
                    /\ wtask'[w] = wtask[w]
              /\ pc'[w] # "processing"]_vars

\* a worker holds the notification of a task that is no longer its
\* in_progress assignment, while the other worker executes a task
C17_Witness ==
    \E w \in Workers :
        /\ pc[w] = "notified"
        /\ wtask[w] \in DOMAIN task_master
        /\ \/ task_master[wtask[w]].status # "in_progress"
           \/ task_master[wtask[w]].assigned_to # w
        /\ \E v \in Workers \ {w} : pc[v] = "processing"

\* C18: claiming notifications marks them processed atomically, so each
\* task_assigned notification is consumed at most once, and only by the
\* worker it is addressed to, under any interleaving of claims and inserts.
C18_ConsumedAtMostOnce ==
    \A i \in 1..Len(consumed) :
        /\ Cardinality(consumed[i]) <= 1
        /\ \A p \in consumed[i] : claimAs[p] = worker_notifications[i].worker_id

\* C19: a worker row whose status is offline goes back to idle only through
\* a fresh registration of that worker: no heartbeat, status update or task
\* completion of a running worker and no pool manager action takes a row
\* from offline to idle.
C19_OfflineToIdleOnlyByRegistration ==
    [][\A w \in Workers :
          (/\ w \in DOMAIN workers
           /\ w \in DOMAIN workers'
           /\ workers[w].status = "offline"
           /\ workers'[w].status = "idle")
              => (pc[w] = "stopped" /\ pc'[w] = "polling")]_vars

\* C20: while a worker executes a task its heartbeat is refreshed by a side
\* task at least every 15 s, so a live worker running a long task is never
\* marked offline while it is still executing; stated for the local
\* worker, whose run loop is the one modelled step by step.
C20_ExecutingWorkerNotOffline ==
    \A w \in Workers :
        (/\ Location(w) = "local"
         /\ pc[w] = "processing"
         /\ w \in DOMAIN workers)
            => workers[w].status # "offline"

\* the path lies in an allow-listed directory: it is that directory or
\* continues it with a separator; and its extension is allow-listed
InsideAllowedDir(path) ==
    \E d \in AllowedDirs :
        \/ path.chars = d
        \/ /\ Len(path.chars) > Len(d)
           /\ SubSeq(path.chars, 1, Len(d)) = d
           /\ path.chars[Len(d) + 1] = "/"

NamedPaths(content) ==
    {content.files[i] : i \in 1..Len(content.files)}
        \cup {content.output_file[i] : i \in 1..Len(content.output_file)}

\* C21: a task whose prompt is empty, or whose files or output_file name a
\* path outside the allow-listed roots or with a disallowed extension, is
\* rejected without the executor being invoked: success is false and the
\* task ends as failed.
C21_InvalidTaskRejected ==
    (/\ valResult.returned
     /\ \/ valTask.prompt_empty
        \/ \E path \in NamedPaths(valTask) :
               ~InsideAllowedDir(path) \/ Lower(path.ext) \notin AllowedExts)
        => /\ ~valResult.executor
           /\ ~valResult.success
           /\ valResult.status = "failed"

\* C22: a control request whose auth_token is missing or wrong is answered
\* with the authentication error and changes nothing: no worker is spawned,
\* shut down or restarted, no row of the store changes, and min_workers and
\* max_workers keep their values, whatever the command
C22_UnauthorizedRequestRefused ==
    [][(apiCount' # apiCount /\ apiReq'.token # ControlToken)
        => /\ apiResp' = "Authentication failed"
           /\ UNCHANGED <<task_master, workers, pc, wtask, poolWorkers,
                          min_workers, max_workers>>]_vars

\* an unauthorized shutdown_all has been refused while the manager had a
\* running worker
C22_Witness ==
    /\ apiReq.token # ControlToken
    /\ apiReq.command = "shutdown_all"
    /\ apiResp = "Authentication failed"
    /\ \E w \in PoolWorkerSet : pc[w] # "stopped"

\* C23: a worker process started with an authentication string other than
\* the expected one exits with status 1 before anything else: it is never
\* running, its row is neither created nor rewritten, and no task becomes
\* assigned to it
C23_UnauthenticatedWorkerExits ==
    [][\A w \in Workers :
         launchAuth'[w] \notin {ExpectedAuth, NotLaunched}
         => /\ pc'[w] = "stopped"
            /\ exitStatus'[w] = 1
            /\ wtask'[w] = NULL
            /\ w \in DOMAIN workers' =>
                  /\ w \in DOMAIN workers
                  /\ workers'[w].age >= workers[w].age
                  /\ [workers'[w] EXCEPT !.age = 0] = [workers[w] EXCEPT !.age = 0]
            /\ \A t \in DOMAIN task_master' :
                  (task_master'[t].assigned_to = w /\ task_master'[t].status = "in_progress")
                  => (t \in DOMAIN task_master /\ task_master[t] = task_master'[t])]_vars

\* a process started without the expected string has exited while a task
\* was waiting to be claimed, and no row was made for it
C23_Witness ==
    \E w \in Workers :
        /\ launchAuth[w] = "other"
        /\ exitStatus[w] = 1
        /\ w \notin DOMAIN workers
        /\ PendingSet(task_master) # {}

\* C24: create_task with a task_id that exists returns False and leaves the
\* whole table as it was; with a new task_id it returns True and the row
\* exists; so of all the creations made with one task_id exactly one has
\* returned True when the row exists, and none otherwise
C24_DuplicateCreateRefused ==
    [][\A t \in Tasks :
         /\ Len(createRet'[t]) > Len(createRet[t])
            => LET returned == createRet'[t][Len(createRet'[t])]
               IN  /\ t \in DOMAIN task_master
                      => returned = FALSE /\ task_master' = task_master
                   /\ t \notin DOMAIN task_master
                      => returned = TRUE /\ t \in DOMAIN task_master'
         /\ Cardinality({i \in DOMAIN createRet'[t] : createRet'[t][i]})
               = IF t \in DOMAIN task_master' THEN 1 ELSE 0]_vars

\* a second creation with the id of a task a worker is executing, and with
\* another priority, has returned False
C24_Witness ==
    \E t \in DOMAIN task_master :
        /\ createRet[t] = <<TRUE, FALSE>>
        /\ task_master[t].status = "in_progress"
        /\ task_master[t].priority = 9

\* C25: the number of active workers, the rows with a fresh heartbeat that
\* scale_workers counts, never exceeds max_workers, whatever scheduling
\* ticks and control commands have run
C25_ActiveWorkersWithinMax ==
    Cardinality(get_active_workers(workers)) <= max_workers

\* C26: a shutdown_worker call of scale-down never stops the process of a
\* worker to which an in_progress task is assigned, also when the task was
\* assigned after the idle workers were read
C26_ScaleDownOnlyIdle ==
    [][\A w \in Workers :
         (poolPc = "shutdown" /\ poolIdle' # poolIdle
            /\ pc[w] # "stopped" /\ pc'[w] = "stopped")
         => ~ \E t \in DOMAIN task_master :
                 /\ task_master[t].status = "in_progress"
                 /\ task_master[t].assigned_to = w]_vars

\* the worker processes that are running
LiveWorkers == {w \in Workers : pc[w] # "stopped"}

\* C27: a shutdown_worker call of scale-down is made in a call that read no
\* pending task, and it never leaves fewer than min_workers running worker
\* processes
C27_ScaleDownKeepsMinWorkers ==
    [][(poolPc = "shutdown" /\ poolIdle' # poolIdle)
        => /\ poolPending = 0
           /\ Cardinality(LiveWorkers') >= min_workers]_vars

\* C28: cleanup_dead_workers sets the row of every worker process of the
\* manager that has exited to offline, forgets the process and starts no
\* process in that step; a worker process is started only by the initial
\* spawn of run() or by a spawn_worker call of a scale_workers call that
\* read a pending task
C28_DeadWorkerOfflineNoRespawn ==
    [][/\ poolPc = "cleanup" /\ poolPc' = "tick"
          => /\ \A w \in PoolWorkerSet :
                   pc[w] = "stopped"
                   => /\ w \in DOMAIN workers' /\ workers'[w].status = "offline"
                      /\ \A i \in DOMAIN poolWorkers' : poolWorkers'[i] # w
             /\ LiveWorkers' \subseteq LiveWorkers
             /\ DOMAIN workers' = DOMAIN workers
       /\ \A w \in Workers :
             (pc[w] = "stopped" /\ pc'[w] # "stopped")
             => \/ poolPc = "start"
                \/ poolPc = "spawn" /\ poolPending > 0]_vars

\* a worker process that was killed while it executed a task has been
\* found by cleanup_dead_workers: its row is offline and still names the
\* task, and the manager has forgotten the process
C28_Witness ==
    \E w \in DOMAIN workers :
        /\ pc[w] = "stopped"
        /\ workers[w].status = "offline"
        /\ workers[w].current_task # NULL
        /\ \A i \in DOMAIN poolWorkers : poolWorkers[i] # w
        /\ poolPc = "tick"

PreferredIdle ==
    \E i \in DOMAIN routeWorkers :
        /\ routeWorkers[i].worker_id = routeTask.preferred_worker
        /\ routeWorkers[i].status = "idle"

C31_DelegatedUnlessTerminal ==
    [][(dlgResp' # dlgResp /\ dlgResp'.task # NULL) =>
          /\ ~dlgResp'.sync => dlgResp'.status = "delegated"
          /\ dlgResp'.result = "timeout" => dlgResp'.status = "delegated"
          /\ dlgResp'.status # "delegated" =>
                /\ dlgResp'.status \in {"completed", "failed"}
                /\ task_master'[dlgResp'.task].status = dlgResp'.status]_vars

\* C32: a sync request with an empty prompt is answered with status
\* completed and the result {success: false, error: "Prompt is empty"}; the
\* answer comes from the handler itself, with no executor run before it
C32_EmptyPromptSyncCompleted ==
    (dlgResp.sync /\ dlgResp.prompt_empty) =>
        /\ dlgResp.status = "completed"
        /\ dlgResp.result = "Prompt is empty"

\* C36: terminal states are absorbing: once a task is completed or failed,
\* its status and its assigned_to never change again, whatever dispatch,
\* completion call, orphan recovery or sync write of MasterAPI comes after
C36_TerminalAbsorbing ==
    [][\A t \in DOMAIN task_master :
          task_master[t].status \in {"completed", "failed"} =>
             /\ task_master'[t].status = task_master[t].status
             /\ task_master'[t].assigned_to = task_master[t].assigned_to]_vars

\* C37: a task submitted in sync mode is executed at most once: while
\* MasterAPI executes it inline no dispatch assigns it and no worker holds
\* it, so the status MasterAPI writes at the end does not land on top of a
\* worker's assignment
C37_SyncExecutedOnce ==
    dlgPc = "executing" =>
        /\ task_master[dlgTask].status = "pending"
        /\ task_master[dlgTask].assigned_to = NULL
        /\ \A w \in Workers : wtask[w] # dlgTask

\* ------------------------------------------------------------- dispatch

\* the manager has finished the dispatch of task t to worker w and the task
\* is still in_progress with assigned_to = w
Dispatched(t, w) ==
    /\ task_master[t].status = "in_progress"
    /\ task_master[t].assigned_to = w
    /\ mgrSel # <<t, w>>

\* a task_assigned notification for (w, t) that w has not consumed
NotificationWaiting(t, w) ==
    \E i \in Unprocessed(w) : worker_notifications[i].task_id = t

\* w has consumed the notification for t and is acting on it
ActingOn(t, w) ==
    /\ wtask[w] = t
    /\ pc[w] \in {"notified", "fetched", "processing"}

\* C38: each dispatch is all-or-nothing: whenever the manager leaves a task
\* in_progress with assigned_to = W, W is marked busy with that task as
\* current_task and a task_assigned notification for (W, task) waits for W,
\* or W has consumed it and acts on the task; no task is stranded
\* in_progress with a live worker that will never execute it
C38_DispatchAllOrNothing ==
    \A t \in DOMAIN task_master : \A w \in DOMAIN workers :
        Dispatched(t, w) =>
            \/ /\ workers[w].status = "busy"
               /\ workers[w].current_task = t
               /\ NotificationWaiting(t, w)
            \/ ActingOn(t, w)

\* C39: cleanup_dead_workers never terminates a worker process that is
\* still running: whatever mix of exited and running workers the pool
\* holds, only the exited ones are touched and removed from self.workers
C39_CleanupSparesRunningWorkers ==
    [][(poolPc = "cleanup" /\ poolPc' = "tick") =>
          /\ \A w \in Workers : pc[w] # "stopped" => pc'[w] # "stopped"
          /\ PoolWorkerSet' = {w \in PoolWorkerSet : pc[w] # "stopped"}]_vars


\* ------------------------------------------------------------ MessageBus

\* subscribe(c, h) has been called
Subscribed(h, c) ==
    \E i \in 1..Len(busSubs) : busSubs[i] = [channel |-> c, callback |-> h]

\* the publish numbers of the messages of channel c that handler h was
\* invoked with, in the order of the invocations
DeliveredIds(h, c) ==
    LET s == SelectSeq(busDelivered, LAMBDA d : d.callback = h /\ d.channel = c)
    IN  [i \in 1..Len(s) |-> s[i].id]

\* strictly ascending publish numbers: publish order, nothing twice
InPublishOrder(ids) == \A i, j \in 1..Len(ids) : i < j => ids[i] < ids[j]

\* the messages of channel c the next delivery round has before it: the
\* notification files of c, or the next message of the pubsub connection
Waiting(c) ==
    IF queue_type = "local"
    THEN {id \in busFiles : busLog[id] = c}
    ELSE {id \in {i \in 1..Len(busLog) : redisInbox # <<>> /\ i = Head(redisInbox)} :
             busLog[id] = c}

\* this step is a delivery round that invokes h with every waiting message
\* of channel c
RoundDelivers(h, c) ==
    \A id \in Waiting(c) :
        \E i \in 1..Len(busDelivered') : busDelivered'[i] = invocation(h, id)

\* C33: per channel, a subscribed handler is invoked exactly once per
\* published message and in publish order, however the messages of other
\* channels interleave
C33_OncePerMessageInPublishOrder ==
    [][\A h \in Handlers : \A c \in Channels :
          Subscribed(h, c) =>
             /\ InPublishOrder(DeliveredIds(h, c))'
             /\ busChecks' # busChecks => RoundDelivers(h, c)]_vars

\* every invocation so far handed a handler a message of a channel it had
\* subscribed to
OwnChannelOnly ==
    \A i \in 1..Len(busDelivered) :
        Subscribed(busDelivered[i].callback, busDelivered[i].channel)

\* C40: a handler subscribed to a channel is invoked with the messages of
\* that channel only, and a subscription to a second channel neither stops
\* nor redirects the delivery to the handler of the first
C40_OwnChannelOnlySecondSubscribeHarmless ==
    [][/\ OwnChannelOnly'
       /\ (/\ busChecks' # busChecks
           /\ Len(busSubs) = 2
           /\ busSubs[1].channel # busSubs[2].channel)
          => RoundDelivers(busSubs[1].callback, busSubs[1].channel)]_vars


\* -------------------------------------------------- DeliverableExtractor

\* the content a section is expected to give its file: what stands between
\* the fences, or the bare text without the blank space around it
ExpectedContent(part) == IF part.wrap = "none" THEN strip(part.body) ELSE part.body

\* C34: for every output with a section --- a.html --- and a section
\* --- b.css --- the extractor writes a.html and b.css, each with exactly
\* the content of its section without the code fences, and README.md
C34_SectionsWrittenToFiles ==
    exType # "none" =>
        /\ {"a.html", "b.css", "README.md"} \subseteq DOMAIN exFiles
        /\ exFiles["a.html"] = ExpectedContent(exParts.a)
        /\ exFiles["b.css"] = ExpectedContent(exParts.b)


\* ---------------------------------------------------------- completion

\* task t has been created and is completed or failed
Terminated(t) ==
    /\ t \in DOMAIN task_master
    /\ task_master[t].status \in {"completed", "failed"}

\* the process of worker w is running and the heartbeat of its row is not
\* older than TDead
Heartbeating(w) ==
    /\ pc[w] # "stopped"
    /\ w \in DOMAIN workers
    /\ workers[w].age <= TDead

\* C35: with a running pool manager and at least one worker that stays
\* alive and keeps heartbeating, every created task eventually reaches a
\* terminal status, completed or failed: no task stays pending or
\* in_progress for ever
C35_EveryTaskTerminates ==
    \A t \in Tasks :
        (\E w \in Workers : <>[]Heartbeating(w)) =>
            ((t \in DOMAIN task_master) ~> Terminated(t))

=============================================================================
